---- MODULE Spec2Model ----
(***************************************************************************)
(* MTZ-backend: the wallet ledger (models/Wallet.js), the transaction log  *)
(* (models/Transaction.js), the token supply (models/Token.js) and the     *)
(* two-phase settlement handlers of the depot and KCC controllers.         *)
(*                                                                         *)
(* Every request handler is a process that runs from one `await` to the    *)
(* next in one step; the database is the shared state.  A mongoose         *)
(* document is a private copy of a stored document: save() writes back the *)
(* paths the handler changed.  A session transaction reads a snapshot,     *)
(* buffers its writes, and a write to a document that another transaction  *)
(* has written, or that changed after the snapshot, throws WriteConflict.  *)
(***************************************************************************)
EXTENDS Integers, Sequences, FiniteSets, TLC

\* ------------------------------------------------------------------ bounds
MaxCalls == 2
MaxDay == 1
MaxAmount == 1
MaxBulk == 2

\* ------------------------------------------------------- program constants
\* limits.dailySendLimit default of a wallet created by getOrCreateWallet
dailySendLimit == 10000

Users == {"u1", "u2", "admin"}
\* process.env.ADMIN_USER_ID
ADMIN_USER_ID == "admin"
Procs == {"p1", "p2"}
Amounts == (0 - 1)..MaxAmount

\* --------------------------------------------------------------- variables
VARIABLES
  wallet,   \* Wallet collection: user -> stored wallet document
  txlog,    \* Transaction collection, in insertion order
  token,    \* the singleton Token document
  activity, \* TokenActivity collection, in insertion order
  depot,    \* the Depot document of depot d1
  delivery, \* the DeliveryRequest collection: one request
  today,    \* calendar day of `new Date()`
  proc,     \* request handlers: position, arguments, private documents
  ncalls    \* number of calls started so far

vars == <<wallet, txlog, token, activity, depot, delivery, today, proc, ncalls>>

\* the milk side of the database
milk == <<depot, delivery>>

\* ------------------------------------------------------------ Wallet model
\* a user without a wallet document
NoWallet ==
  [exists |-> FALSE, MTZ |-> 0, dailySendLimit |-> 0, dailySendUsed |-> 0,
   lastReset |-> 0, totalReceived |-> 0, totalSent |-> 0,
   transactionCount |-> 0, isLocked |-> FALSE, v |-> 0]

\* walletSchema defaults: the document `create({ user })` stores
NewWallet(day) ==
  [exists |-> TRUE, MTZ |-> 0, dailySendLimit |-> dailySendLimit,
   dailySendUsed |-> 0, lastReset |-> day, totalReceived |-> 0,
   totalSent |-> 0, transactionCount |-> 0, isLocked |-> FALSE, v |-> 0]

\* schema validator `balances.MTZ: { min: 0 }`, run by save()
walletValid(w) == w.MTZ >= 0

\* walletSchema.methods.canSend
canSendNoBalance(w, amount, day) ==
  /\ ~w.isLocked
  /\ ~(w.lastReset = day /\ w.dailySendUsed + amount > w.dailySendLimit)
canSendNoLimit(w, amount, day) ==
  /\ ~w.isLocked
  /\ ~(w.MTZ < amount)
canSend(w, amount, day) ==
  /\ ~w.isLocked
  /\ ~(w.MTZ < amount)
  /\ ~(w.lastReset = day /\ w.dailySendUsed + amount > w.dailySendLimit)

\* the reason canSend gives for a refusal (the handlers only see `false`)
whyNot(w, amount, day) ==
  IF w.isLocked THEN "locked"
  ELSE IF w.MTZ < amount THEN "balance"
  ELSE "limit"

\* walletSchema.methods.addTokens: the in-memory update before save()
addTokens(w, amount) ==
  [w EXCEPT !.MTZ = @ + amount,
            !.totalReceived = @ + amount,
            !.transactionCount = @ + 1]

\* walletSchema.methods.deductTokens: the in-memory update before save()
\* (the caller has evaluated canSend; deductTokens throws when it is false)
deductTokensCumulative(w, amount, day) ==
  [w EXCEPT !.MTZ = @ - amount,
            !.totalSent = @ + amount,
            !.transactionCount = @ + 1,
            !.dailySendUsed = @ + amount,
            !.lastReset = day]
deductTokens(w, amount, day) ==
  [w EXCEPT !.MTZ = @ - amount,
            !.totalSent = @ + amount,
            !.transactionCount = @ + 1,
            !.dailySendUsed = IF w.lastReset = day THEN @ + amount ELSE amount,
            !.lastReset = IF w.lastReset = day THEN @ ELSE day]

\* document.save(): $set of the paths changed since the document was loaded
\* or last saved (base), applied to the stored document db
setModified(db, base, new) ==
  [f \in DOMAIN db |->
     IF f # "v" /\ new[f] # base[f] THEN new[f] ELSE db[f]]

bump(w) == [w EXCEPT !.v = @ + 1]

\* ----------------------------------------------------------------- session
\* another open transaction holds an uncommitted write of u's wallet
lockedByOther(p, u) ==
  \E q \in Procs \ {p} : proc[q].session /\ u \in proc[q].wr

\* a transactional write of u by p throws WriteConflict
writeConflict(p, u) ==
  \/ lockedByOther(p, u)
  \/ (u \notin proc[p].wr /\ wallet[u].v # proc[p].view[u].v)

\* ------------------------------------------------------------- Token model
\* no Token document loaded
NoToken ==
  [totalSupply |-> 0, circulatingSupply |-> 0, burnedSupply |-> 0,
   maxSupply |-> 0, minRedemption |-> 0]

\* schema validators `min: 0` of totalSupply, circulatingSupply, burnedSupply
tokenValid(t) ==
  t.totalSupply >= 0 /\ t.circulatingSupply >= 0 /\ t.burnedSupply >= 0

\* mintTokens lines 429-430: the in-memory update before save()
minted(t, amount) ==
  [t EXCEPT !.totalSupply = @ + amount, !.circulatingSupply = @ + amount]

\* burnTokens lines 455-456: the in-memory update before save()
burned(t, amount) ==
  [t EXCEPT !.circulatingSupply = @ - amount, !.burnedSupply = @ + amount]

\* token.save(): $set of the paths changed since the document was loaded
setModifiedToken(db, base, new) ==
  [f \in DOMAIN db |-> IF new[f] # base[f] THEN new[f] ELSE db[f]]

\* ------------------------------------------------------------- Depot model
\* the Depot document: stock.*, status and the pickupSignal.* paths;
\* sigPast is `new Date() > pickupSignal.expiresAt`
InitDepot ==
  [status |-> "active", rawMilk |-> 0, pasteurizedMilk |-> 0, capacity |-> 2,
   sigStatus |-> "null", sigAcceptedBy |-> "none", sigLiters |-> 0,
   sigExpiresAt |-> 0, sigPast |-> FALSE]

\* depotSchema.methods.canAcceptDeposit
canAcceptDepositAnyStock(d, liters) == d.status = "active"
canAcceptDeposit(d, liters) ==
  /\ d.status = "active"
  /\ ~(d.rawMilk + liters > d.capacity)

\* depotSchema.methods.addMilkStock: the in-memory update before save()
addMilkStock(d, liters, milkType) ==
  IF milkType = "raw" THEN [d EXCEPT !.rawMilk = @ + liters]
  ELSE [d EXCEPT !.pasteurizedMilk = @ + liters]

\* depotSchema.methods.removeMilkStock: the stock check, then the in-memory
\* update before save()
hasMilkStock(d, liters, milkType) ==
  IF milkType = "raw" THEN ~(d.rawMilk < liters)
  ELSE ~(d.pasteurizedMilk < liters)
removeMilkStock(d, liters, milkType) ==
  IF milkType = "raw" THEN [d EXCEPT !.rawMilk = @ - liters]
  ELSE [d EXCEPT !.pasteurizedMilk = @ - liters]

\* the pickupSignal paths of a depot document
signalOf(d) ==
  [status |-> d.sigStatus, acceptedBy |-> d.sigAcceptedBy,
   estimatedLiters |-> d.sigLiters, expiresAt |-> d.sigExpiresAt]

\* `new Date(Date.now() + 2h)` of the call numbered cid (the signal of the
\* initial state was created by call 0)
expiry(cid) == cid + 1

\* depotSchema.methods.createPickupSignal: the in-memory update before save()
createPickupSignal(d, estimatedLiters, expiresAt) ==
  [d EXCEPT !.sigLiters = IF estimatedLiters # 0 THEN estimatedLiters
                          ELSE d.rawMilk,
            !.sigStatus = "available", !.sigAcceptedBy = "none",
            !.sigExpiresAt = expiresAt, !.sigPast = FALSE]

\* depotSchema.methods.clearPickupSignal: the in-memory update before save()
clearPickupSignal(d) ==
  [d EXCEPT !.sigLiters = 0, !.sigStatus = "null", !.sigAcceptedBy = "none",
            !.sigExpiresAt = 0, !.sigPast = FALSE]

\* save() after `this.pickupSignal = {...}`: the whole nested object is $set
savedSignal(db, new) ==
  [db EXCEPT !.sigLiters = new.sigLiters, !.sigStatus = new.sigStatus,
             !.sigAcceptedBy = new.sigAcceptedBy,
             !.sigExpiresAt = new.sigExpiresAt, !.sigPast = new.sigPast]

\* schema validator `estimatedLiters: { min: 1 }`
signalValid(d) == d.sigStatus = "null" \/ d.sigLiters >= 1

\* depotSchema.methods.canCreatePickupSignal
canCreatePickupSignal(d) ==
  /\ d.status = "active"
  /\ ~(d.rawMilk < 1)
  /\ d.sigStatus # "available"

\* depotSchema.methods.isPickupSignalExpired
isPickupSignalExpired(d) == d.sigExpiresAt # 0 /\ d.sigPast

\* the condition of checkAndExpirePickupSignal (line 198)
mustExpireNever(d) == FALSE
mustExpire(d) == isPickupSignalExpired(d) /\ d.sigStatus = "available"

\* schema validators `min: 0` of stock.rawMilk and stock.pasteurizedMilk
depotValid(d) == d.rawMilk >= 0 /\ d.pasteurizedMilk >= 0

\* depot.save(): $set of the paths changed since the document was loaded
setModifiedDepot(db, base, new) ==
  [f \in DOMAIN db |-> IF new[f] # base[f] THEN new[f] ELSE db[f]]

\* --------------------------------------------------- DeliveryRequest model
\* no request in the collection
NoDelivery ==
  [exists |-> FALSE, status |-> "none", assignedKcc |-> "none",
   depotAttendant |-> "u1", litersRequested |-> 0, completedBy |-> "none",
   past |-> FALSE]

\* User.role
role(u) == IF u = "u1" THEN "attendant" ELSE "kcc_attendant"

\* User.assignedKcc: u2 works at branch X, the third user at branch Y
assignedKcc(u) ==
  IF u = "u2" THEN "X" ELSE IF u = ADMIN_USER_ID THEN "Y" ELSE "none"

\* ------------------------------------------------------------- process state
NoView == [u \in Users |-> NoWallet]

Idle ==
  [pc |-> "idle", op |-> "none", cid |-> 0,
   from |-> "u1", to |-> "u1", amount |-> 0, fee |-> 0,
   transfers |-> <<>>, i |-> 0,
   fromWallet |-> NoWallet, fromBase |-> NoWallet,
   toWallet |-> NoWallet, toBase |-> NoWallet,
   session |-> FALSE, view |-> NoView, wr |-> {}, pend |-> 0,
   count |-> 0, code |-> 0, caller |-> "none", txid |-> 0,
   tok |-> NoToken, tokBase |-> NoToken,
   depotDoc |-> InitDepot, depotBase |-> InitDepot,
   \* history of the call, for the properties
   nw |-> 0, delta |-> 0, deb |-> FALSE, cred |-> FALSE, nlog |-> 0,
   why |-> "", seen |-> NoWallet, seenDay |-> 0, seenAmount |-> 0,
   seenStatus |-> "none", stocked |-> FALSE, seenStock |-> 0]

Ended(p) == proc[p].pc \in {"done", "failed"}

\* a call may start on a handler that is idle or has ended its last call
\* (the handlers are interchangeable: p2 takes a call only once p1 has)
CanStart(p) ==
  /\ proc[p].pc \in {"idle", "done", "failed"}
  /\ ncalls < MaxCalls
  /\ (p = "p2" => proc["p1"].pc # "idle")

Call(p, op, from, to, amount) ==
  [Idle EXCEPT !.op = op, !.cid = ncalls + 1, !.from = from, !.to = to,
               !.amount = amount]

\* the call has ended: its private documents are dropped, its history stays
ended(r, pc) ==
  [Idle EXCEPT !.pc = pc, !.op = r.op, !.cid = r.cid, !.from = r.from,
               !.to = r.to, !.amount = r.amount, !.fee = r.fee,
               !.transfers = r.transfers, !.txid = r.txid,
               !.caller = r.caller,
               !.nw = r.nw, !.delta = r.delta, !.deb = r.deb, !.cred = r.cred,
               !.nlog = r.nlog, !.why = r.why, !.seen = r.seen,
               !.seenDay = r.seenDay, !.seenAmount = r.seenAmount,
               !.seenStatus = r.seenStatus, !.stocked = r.stocked,
               !.seenStock = r.seenStock]

\* a throw inside a session handler: control reaches the catch block
Throw(r, why) == [r EXCEPT !.pc = "abort", !.why = why]
\* a throw (or an error response) of a handler without a session
Fail(r, why) == ended([r EXCEPT !.why = why], "failed")

\* a wallet save() outside a session waits while an open transaction holds
\* an uncommitted write of the same document
canWrite(p, u) == ~lockedByOther(p, u)

\* the stored wallets after a save() of u's document outside a session
saved(u, base, new) ==
  [wallet EXCEPT ![u] = bump(setModified(@, base, new))]

\* history: a committed wallet write by the call r
wrote(r, u, after) ==
  [r EXCEPT !.nw = @ + 1, !.delta = @ + (after[u].MTZ - wallet[u].MTZ)]

\* ---------------------------------------------------------- simpleTransfer
\* lines 245-249: the checks and the in-memory debit that follow the two reads
simpleChecks(r) ==
  IF ~r.fromWallet.exists THEN Fail(r, "notfound")
  ELSE IF ~canSend(r.fromWallet, r.amount, today)
    THEN Fail([r EXCEPT !.seen = r.fromWallet, !.seenDay = today,
                        !.seenAmount = r.amount],
              whyNot(r.fromWallet, r.amount, today))
  ELSE [r EXCEPT !.pc = "st_deduct",
                 !.seen = r.fromWallet, !.seenDay = today,
                 !.seenAmount = r.amount,
                 !.fromBase = r.fromWallet,
                 !.fromWallet = deductTokens(r.fromWallet, r.amount, today)]

\* line 238: findOne({ user: fromUserId })
SimpleTransferFind(p) ==
  /\ CanStart(p)
  /\ \E from \in Users, to \in Users, amount \in Amounts :
       proc' = [proc EXCEPT ![p] =
                  [Call(p, "simpleTransfer", from, to, amount)
                     EXCEPT !.pc = "st_getTo", !.fromWallet = wallet[from]]]
  /\ ncalls' = ncalls + 1
  /\ UNCHANGED <<wallet, txlog, token, activity, today, milk>>

\* line 239, getOrCreateWallet line 70: findOne({ user: toUserId })
SimpleTransferGetTo(p) ==
  /\ proc[p].pc = "st_getTo"
  /\ LET r == proc[p] IN
       proc' = [proc EXCEPT ![p] =
                  IF wallet[r.to].exists
                    THEN simpleChecks([r EXCEPT !.toWallet = wallet[r.to],
                                                !.toBase = wallet[r.to]])
                    ELSE [r EXCEPT !.pc = "st_createTo"]]
  /\ UNCHANGED <<wallet, txlog, token, activity, today, ncalls, milk>>

\* getOrCreateWallet line 72: create({ user }), unique index on user
SimpleTransferCreateTo(p) ==
  /\ proc[p].pc = "st_createTo"
  /\ canWrite(p, proc[p].to)
  /\ LET r == proc[p]
         w == [NewWallet(today) EXCEPT !.v = wallet[r.to].v + 1] IN
       IF wallet[r.to].exists
         THEN /\ proc' = [proc EXCEPT ![p] = Fail(r, "duplicate")]
              /\ UNCHANGED wallet
         ELSE /\ wallet' = [wallet EXCEPT ![r.to] = w]
              /\ proc' = [proc EXCEPT ![p] =
                            simpleChecks([r EXCEPT !.toWallet = w, !.toBase = w])]
  /\ UNCHANGED <<txlog, token, activity, today, ncalls, milk>>

\* line 249: the save() of deductTokens, then the in-memory credit of line 250
SimpleTransferDeduct(p) ==
  /\ proc[p].pc = "st_deduct"
  /\ canWrite(p, proc[p].from)
  /\ LET r == proc[p]
         after == saved(r.from, r.fromBase, r.fromWallet) IN
       IF ~walletValid(r.fromWallet)
         THEN /\ proc' = [proc EXCEPT ![p] = Fail(r, "validation")]
              /\ UNCHANGED wallet
         ELSE /\ wallet' = after
              /\ proc' = [proc EXCEPT ![p] =
                   [wrote(r, r.from, after) EXCEPT
                      !.pc = "st_add", !.deb = TRUE,
                      !.fromBase = r.fromWallet,
                      !.toWallet = addTokens(r.toWallet, r.amount)]]
  /\ UNCHANGED <<txlog, token, activity, today, ncalls, milk>>

\* line 250: the save() of addTokens
SimpleTransferAdd(p) ==
  /\ proc[p].pc = "st_add"
  /\ canWrite(p, proc[p].to)
  /\ LET r == proc[p]
         after == saved(r.to, r.toBase, r.toWallet) IN
       IF ~walletValid(r.toWallet)
         THEN /\ proc' = [proc EXCEPT ![p] = Fail(r, "validation")]
              /\ UNCHANGED wallet
         ELSE /\ wallet' = after
              /\ proc' = [proc EXCEPT ![p] =
                   ended([wrote(r, r.to, after) EXCEPT !.cred = TRUE], "done")]
  /\ UNCHANGED <<txlog, token, activity, today, ncalls, milk>>

\* ------------------------------------------------------- session helpers
RECURSIVE total(_, _)
\* sum of the balances of the users in S in the wallet collection ws
total(ws, S) ==
  IF S = {} THEN 0
  ELSE LET u == CHOOSE x \in S : TRUE IN ws[u].MTZ + total(ws, S \ {u})

\* save({ session }) of u's document: buffered in the transaction
sessionSave(r, u, base, new) ==
  [r EXCEPT !.view[u] = setModified(@, base, new),
            !.wr = @ \cup {u},
            !.pend = @ + 1]

\* create([{ user }], { session }): buffered in the transaction
sessionCreate(r, u) ==
  [r EXCEPT !.view[u] = [NewWallet(today) EXCEPT !.v = r.view[u].v],
            !.wr = @ \cup {u}]

\* the wallet collection once the transaction of r is committed
committed(r) ==
  [u \in Users |-> IF u \in r.wr THEN bump(r.view[u]) ELSE wallet[u]]

\* ------------------------------------------------------------ Transaction
\* ObjectId(undefined): createTokenTransfer reads transferData.fromUserId and
\* transferData.toUserId, which its callers in Wallet.js never set
freshId == "fresh"

\* transactionSchema.pre('save'): `TX` + (countDocuments() + 1)
reference(count) == count + 1

\* a collection without the unique index on reference
duplicateKeyNever(ref) == FALSE
\* unique index on reference: the insert throws E11000
duplicateKey(ref) == \E k \in 1..Len(txlog) : txlog[k].reference = ref

\* the document createTokenTransfer builds (lines 611-623)
tokenTransfer(r, amount, fee) ==
  [type |-> "token_transfer", fromUser |-> freshId, toUser |-> freshId,
   attendant |-> "none", kccAttendant |-> "none", depot |-> "none",
   litersRaw |-> 0, tokensAmount |-> amount,
   fee |-> fee, status |-> "completed", reference |-> reference(r.count),
   depositCode |-> 0, cid |-> r.cid]

\* schema validator `tokensAmount: { min: 0 }`, run by save() before the
\* pre('save') hook
transactionValid(amount) == amount >= 0

\* ---------------------------------------------------------- transferTokens
\* line 144: the call, up to startSession()
TransferTokensCall(p) ==
  /\ CanStart(p)
  /\ \E from \in Users, to \in Users, amount \in Amounts :
       proc' = [proc EXCEPT ![p] =
                  [Call(p, "transferTokens", from, to, amount)
                     EXCEPT !.pc = "tt_find"]]
  /\ ncalls' = ncalls + 1
  /\ UNCHANGED <<wallet, txlog, token, activity, today, milk>>

\* lines 147-152: startTransaction and the first read, which fixes the snapshot
TransferTokensFind(p) ==
  /\ proc[p].pc = "tt_find"
  /\ LET r == [proc[p] EXCEPT !.session = TRUE, !.view = wallet,
                              !.fromWallet = wallet[proc[p].from]] IN
       proc' = [proc EXCEPT ![p] =
                  IF r.fromWallet.exists
                    THEN [r EXCEPT !.pc = "tt_getTo"]
                    ELSE Throw(r, "notfound")]
  /\ UNCHANGED <<wallet, txlog, token, activity, today, ncalls, milk>>

\* lines 156-160: canSend and the in-memory debit
transferChecks(r) ==
  IF ~canSend(r.fromWallet, r.amount, today)
    THEN Throw([r EXCEPT !.seen = r.fromWallet, !.seenDay = today,
                         !.seenAmount = r.amount],
               whyNot(r.fromWallet, r.amount, today))
  ELSE [r EXCEPT !.pc = "tt_deduct",
                 !.seen = r.fromWallet, !.seenDay = today,
                 !.seenAmount = r.amount,
                 !.fromBase = r.fromWallet,
                 !.fromWallet = deductTokens(r.fromWallet, r.amount, today)]

\* line 154: getOrCreateWalletInSession(toUserId), then lines 156-160
TransferTokensGetTo(p) ==
  /\ proc[p].pc = "tt_getTo"
  /\ LET r == proc[p] IN
       proc' = [proc EXCEPT ![p] =
         IF r.view[r.to].exists
           THEN transferChecks([r EXCEPT !.toWallet = r.view[r.to],
                                         !.toBase = r.view[r.to]])
         ELSE IF writeConflict(p, r.to) THEN Throw(r, "conflict")
         ELSE LET c == sessionCreate(r, r.to) IN
                transferChecks([c EXCEPT !.toWallet = c.view[r.to],
                                         !.toBase = c.view[r.to]])]
  /\ UNCHANGED <<wallet, txlog, token, activity, today, ncalls, milk>>

\* line 160: save({ session }) of the sender, then the in-memory credit
TransferTokensDeduct(p) ==
  /\ proc[p].pc = "tt_deduct"
  /\ LET r == proc[p] IN
       proc' = [proc EXCEPT ![p] =
         IF ~walletValid(r.fromWallet) THEN Throw(r, "validation")
         ELSE IF writeConflict(p, r.from) THEN Throw(r, "conflict")
         ELSE [sessionSave(r, r.from, r.fromBase, r.fromWallet) EXCEPT
                 !.pc = "tt_add",
                 !.fromBase = r.fromWallet,
                 !.toWallet = addTokens(r.toWallet, r.amount)]]
  /\ UNCHANGED <<wallet, txlog, token, activity, today, ncalls, milk>>

\* line 161: save({ session }) of the recipient
TransferTokensAdd(p) ==
  /\ proc[p].pc = "tt_add"
  /\ LET r == proc[p] IN
       proc' = [proc EXCEPT ![p] =
         IF ~walletValid(r.toWallet) THEN Throw(r, "validation")
         ELSE IF writeConflict(p, r.to) THEN Throw(r, "conflict")
         ELSE [sessionSave(r, r.to, r.toBase, r.toWallet) EXCEPT
                 !.pc = "tt_count", !.toBase = r.toWallet]]
  /\ UNCHANGED <<wallet, txlog, token, activity, today, ncalls, milk>>

\* lines 164-169: createTokenTransfer, called without the session:
\* validation, then countDocuments() of the pre('save') hook
TransferTokensCount(p) ==
  /\ proc[p].pc = "tt_count"
  /\ LET r == proc[p] IN
       proc' = [proc EXCEPT ![p] =
         IF ~transactionValid(r.amount) THEN Throw(r, "validation")
         ELSE [r EXCEPT !.pc = "tt_insert", !.count = Len(txlog)]]
  /\ UNCHANGED <<wallet, txlog, token, activity, today, ncalls, milk>>

\* createTokenTransfer line 630: the insert, outside the transaction
TransferTokensInsert(p) ==
  /\ proc[p].pc = "tt_insert"
  /\ LET r == proc[p] IN
       IF duplicateKey(reference(r.count))
         THEN /\ proc' = [proc EXCEPT ![p] = Throw(r, "duplicate")]
              /\ UNCHANGED txlog
         ELSE /\ txlog' = Append(txlog, tokenTransfer(r, r.amount, 0))
              /\ proc' = [proc EXCEPT ![p] =
                            [r EXCEPT !.pc = "tt_commit", !.nlog = @ + 1]]
  /\ UNCHANGED <<wallet, token, activity, today, ncalls, milk>>

\* where control goes when transferTokens returns
returned(r) ==
  IF r.caller = "none" THEN ended(r, "done")
  ELSE IF r.caller = "confirmKccDelivery" THEN [r EXCEPT !.pc = "cd_stock"]
  ELSE [r EXCEPT !.pc = "settle_save"]

\* line 171: commitTransaction() applies the buffered writes
TransferTokensCommit(p) ==
  /\ proc[p].pc = "tt_commit"
  /\ LET r == proc[p] IN
       /\ wallet' = committed(r)
       /\ proc' = [proc EXCEPT ![p] =
            returned([r EXCEPT !.session = FALSE, !.wr = {}, !.view = NoView,
                               !.nw = @ + r.pend, !.pend = 0,
                               !.delta = @ + total(committed(r), Users)
                                           - total(wallet, Users),
                               !.deb = TRUE, !.cred = TRUE])]
  /\ UNCHANGED <<txlog, token, activity, today, ncalls, milk>>

\* line 171: commitTransaction() rejects (the server or the connection fails)
CommitFails(p) ==
  /\ proc[p].pc \in {"tt_commit", "bt_commit"}
  /\ proc' = [proc EXCEPT ![p] = Throw(proc[p], "commit")]
  /\ UNCHANGED <<wallet, txlog, token, activity, today, ncalls, milk>>

\* lines 182-188: catch: abortTransaction() drops the buffered writes, and
\* the error is thrown on to the caller
AbortTransaction(p) ==
  /\ proc[p].pc = "abort"
  /\ proc' = [proc EXCEPT ![p] =
       ended(proc[p], "failed")]
  /\ UNCHANGED <<wallet, txlog, token, activity, today, ncalls, milk>>

\* ------------------------------------------------------------ bulkTransfer
\* the transfers[] arguments: 1..MaxBulk entries { toUserId, amount }
BulkEntries == [toUserId : {"u2", ADMIN_USER_ID}, amount : Amounts \ {0}]
BulkInputs ==
  UNION {[1..n -> BulkEntries] : n \in 1..MaxBulk}

RECURSIVE sumAmounts(_)
\* line 202: transfers.reduce((sum, transfer) => sum + transfer.amount, 0)
sumAmounts(ts) ==
  IF ts = <<>> THEN 0 ELSE ts[1].amount + sumAmounts(Tail(ts))

\* line 192: the call, up to startSession()
BulkTransferCall(p) ==
  /\ CanStart(p)
  /\ \E from \in Users, ts \in BulkInputs :
       proc' = [proc EXCEPT ![p] =
                  [Call(p, "bulkTransfer", from, from, sumAmounts(ts))
                     EXCEPT !.pc = "bt_find", !.transfers = ts]]
  /\ ncalls' = ncalls + 1
  /\ UNCHANGED <<wallet, txlog, token, activity, today, milk>>

\* lines 195-206: the first read fixes the snapshot; the sum check
BulkTransferFind(p) ==
  /\ proc[p].pc = "bt_find"
  /\ LET r == [proc[p] EXCEPT !.session = TRUE, !.view = wallet,
                              !.fromWallet = wallet[proc[p].from],
                              !.fromBase = wallet[proc[p].from]]
         totalAmount == sumAmounts(r.transfers) IN
       proc' = [proc EXCEPT ![p] =
         IF ~r.fromWallet.exists THEN Throw(r, "notfound")
         ELSE IF ~canSend(r.fromWallet, totalAmount, today)
           THEN Throw([r EXCEPT !.seen = r.fromWallet, !.seenDay = today,
                                !.seenAmount = totalAmount],
                      whyNot(r.fromWallet, totalAmount, today))
         ELSE [r EXCEPT !.pc = "bt_getTo", !.i = 1]]
  /\ UNCHANGED <<wallet, txlog, token, activity, today, ncalls, milk>>

\* line 210: deductTokens(transfer.amount): canSend and the in-memory debit
bulkDebit(r) ==
  LET a == r.transfers[r.i].amount IN
  IF ~canSend(r.fromWallet, a, today)
    THEN Throw([r EXCEPT !.seen = r.fromWallet, !.seenDay = today,
                         !.seenAmount = a],
               whyNot(r.fromWallet, a, today))
  ELSE [r EXCEPT !.pc = "bt_deduct",
                 !.seen = r.fromWallet, !.seenDay = today, !.seenAmount = a,
                 !.fromBase = r.fromWallet,
                 !.fromWallet = deductTokens(r.fromWallet, a, today)]

\* line 209: getOrCreateWalletInSession(transfer.toUserId), then line 210
BulkTransferGetTo(p) ==
  /\ proc[p].pc = "bt_getTo"
  /\ LET r == proc[p]
         to == r.transfers[r.i].toUserId IN
       proc' = [proc EXCEPT ![p] =
         IF r.view[to].exists
           THEN bulkDebit([r EXCEPT !.to = to, !.toWallet = r.view[to],
                                    !.toBase = r.view[to]])
         ELSE IF writeConflict(p, to) THEN Throw(r, "conflict")
         ELSE LET c == sessionCreate(r, to) IN
                bulkDebit([c EXCEPT !.to = to, !.toWallet = c.view[to],
                                    !.toBase = c.view[to]])]
  /\ UNCHANGED <<wallet, txlog, token, activity, today, ncalls, milk>>

\* line 210: save({ session }) of the sender, then the in-memory credit
BulkTransferDeduct(p) ==
  /\ proc[p].pc = "bt_deduct"
  /\ LET r == proc[p] IN
       proc' = [proc EXCEPT ![p] =
         IF ~walletValid(r.fromWallet) THEN Throw(r, "validation")
         ELSE IF writeConflict(p, r.from) THEN Throw(r, "conflict")
         ELSE [sessionSave(r, r.from, r.fromBase, r.fromWallet) EXCEPT
                 !.pc = "bt_add",
                 !.fromBase = r.fromWallet,
                 !.toWallet = addTokens(r.toWallet, r.transfers[r.i].amount)]]
  /\ UNCHANGED <<wallet, txlog, token, activity, today, ncalls, milk>>

\* line 211: save({ session }) of the recipient
BulkTransferAdd(p) ==
  /\ proc[p].pc = "bt_add"
  /\ LET r == proc[p] IN
       proc' = [proc EXCEPT ![p] =
         IF ~walletValid(r.toWallet) THEN Throw(r, "validation")
         ELSE IF writeConflict(p, r.to) THEN Throw(r, "conflict")
         ELSE [sessionSave(r, r.to, r.toBase, r.toWallet) EXCEPT
                 !.pc = "bt_count", !.toBase = r.toWallet]]
  /\ UNCHANGED <<wallet, txlog, token, activity, today, ncalls, milk>>

\* lines 213-218: createTokenTransfer, called without the session:
\* validation, then countDocuments() of the pre('save') hook
BulkTransferCount(p) ==
  /\ proc[p].pc = "bt_count"
  /\ LET r == proc[p] IN
       proc' = [proc EXCEPT ![p] =
         IF ~transactionValid(r.transfers[r.i].amount)
           THEN Throw(r, "validation")
         ELSE [r EXCEPT !.pc = "bt_insert", !.count = Len(txlog)]]
  /\ UNCHANGED <<wallet, txlog, token, activity, today, ncalls, milk>>

\* createTokenTransfer line 630: the insert, outside the transaction;
\* line 208: the loop goes on to the next transfer
BulkTransferInsert(p) ==
  /\ proc[p].pc = "bt_insert"
  /\ LET r == proc[p] IN
       IF duplicateKey(reference(r.count))
         THEN /\ proc' = [proc EXCEPT ![p] = Throw(r, "duplicate")]
              /\ UNCHANGED txlog
         ELSE /\ txlog' = Append(txlog,
                            tokenTransfer(r, r.transfers[r.i].amount, 0))
              /\ proc' = [proc EXCEPT ![p] =
                   [r EXCEPT !.nlog = @ + 1,
                             !.i = @ + 1,
                             !.pc = IF r.i < Len(r.transfers)
                                      THEN "bt_getTo" ELSE "bt_commit"]]
  /\ UNCHANGED <<wallet, token, activity, today, ncalls, milk>>

\* line 221: commitTransaction() applies the buffered writes
BulkTransferCommit(p) ==
  /\ proc[p].pc = "bt_commit"
  /\ LET r == proc[p] IN
       /\ wallet' = committed(r)
       /\ proc' = [proc EXCEPT ![p] =
            ended([r EXCEPT !.nw = @ + r.pend,
                            !.delta = @ + total(committed(r), Users)
                                        - total(wallet, Users),
                            !.deb = TRUE, !.cred = TRUE], "done")]
  /\ UNCHANGED <<txlog, token, activity, today, ncalls, milk>>

\* ------------------------------------- processTokenPayment, processKccPayment
\* User.assignedDepot: u1 is the attendant of depot d1
assignedDepot(u) == IF u = "u1" THEN "d1" ELSE "none"

\* depotController lines 577-582: the filter of findOne, _id apart
anyDeposit(t, depotId) ==
  t.depot = depotId /\ t.type = "milk_deposit"
pendingDeposit(t, depotId) ==
  t.depot = depotId /\ t.type = "milk_deposit" /\ t.status = "pending"

\* kccController lines 363-368: the filter of findOne, _id apart
pendingPickup(t, kccAttendantId) ==
  t.kccAttendant = kccAttendantId /\ t.type = "kcc_pickup"
    /\ t.status = "pending"

\* depotController lines 561-572: the request and the depot authorisation
ProcessTokenPaymentCall(p) ==
  /\ CanStart(p)
  /\ \E attendantId \in {"u1", "u2"}, transactionId \in 1..Len(txlog) :
       LET r == [Call(p, "processTokenPayment", attendantId, attendantId, 0)
                   EXCEPT !.txid = transactionId,
                          !.caller = "processTokenPayment"] IN
       proc' = [proc EXCEPT ![p] =
                  IF assignedDepot(attendantId) # "d1"
                    THEN Fail(r, "forbidden")
                    ELSE [r EXCEPT !.pc = "pt_find"]]
  /\ ncalls' = ncalls + 1
  /\ UNCHANGED <<wallet, txlog, token, activity, today, milk>>

\* depotController lines 577-596: findOne of the pending deposit
ProcessTokenPaymentFind(p) ==
  /\ proc[p].pc = "pt_find"
  /\ LET r == [proc[p] EXCEPT !.seenStatus = txlog[proc[p].txid].status]
         t == txlog[r.txid] IN
       proc' = [proc EXCEPT ![p] =
                  IF ~pendingDeposit(t, "d1")
                    THEN Fail(r, "notpending")
                    ELSE [r EXCEPT !.pc = "gw_find", !.to = t.fromUser,
                                   !.amount = t.litersRaw]]
  /\ UNCHANGED <<wallet, txlog, token, activity, today, ncalls, milk>>

\* kccController lines 359-378: the request and findOne of the pending pickup
ProcessKccPaymentFind(p) ==
  /\ CanStart(p)
  /\ \E kccAttendantId \in {"u2", ADMIN_USER_ID},
        transactionId \in 1..Len(txlog) :
       LET t == txlog[transactionId]
           r == [Call(p, "processKccPayment", kccAttendantId,
                      t.fromUser, t.litersRaw)
                   EXCEPT !.txid = transactionId,
                          !.caller = "processKccPayment",
                          !.seenStatus = t.status] IN
       proc' = [proc EXCEPT ![p] =
                  IF ~pendingPickup(t, kccAttendantId)
                    THEN Fail(r, "notpending")
                    ELSE [r EXCEPT !.pc = "gw_find"]]
  /\ ncalls' = ncalls + 1
  /\ UNCHANGED <<wallet, txlog, token, activity, today, milk>>

\* a settlement that skips the transfer when the balance is short and goes on
\* to mark the entry paid
balanceUnchecked(r, w) ==
  IF w.MTZ < r.amount THEN [r EXCEPT !.pc = "settle_save", !.why = "insufficient"]
  ELSE [r EXCEPT !.pc = "tt_find"]
\* depotController line 600, kccController line 384: the balance pre-check,
\* then the call of Wallet.transferTokens
balanceCheck(r, w) ==
  IF w.MTZ < r.amount THEN Fail(r, "insufficient")
  ELSE [r EXCEPT !.pc = "tt_find"]

\* a redemption whose value computation returns: the debit of line 71 follows
redemptionDebits(r, w) ==
  LET c == [r EXCEPT !.seen = w, !.seenDay = today, !.seenAmount = r.amount] IN
    IF w.MTZ < r.amount THEN Fail(c, "insufficient")
    ELSE IF r.amount < token.minRedemption THEN Fail(c, "minimum")
    ELSE [c EXCEPT !.pc = "st_deduct", !.fromBase = w,
                   !.fromWallet = deductTokens(w, r.amount, today),
                   !.toBase = w, !.toWallet = w]
\* the same, with a step that throws once the debit is stored
redemptionDebitsThenThrows(r, w) ==
  LET c == [r EXCEPT !.seen = w, !.seenDay = today, !.seenAmount = r.amount] IN
    IF w.MTZ < r.amount THEN Fail(c, "insufficient")
    ELSE IF r.amount < token.minRedemption THEN Fail(c, "minimum")
    ELSE [c EXCEPT !.pc = "st_deduct", !.fromBase = w,
                   !.fromWallet = deductTokens(w, r.amount, today),
                   !.toBase = w,
                   !.toWallet = [w EXCEPT !.MTZ = (0 - 1) - r.amount]]
\* mpesaController lines 373-389: the balance check, the minimum check, and
\* Token.calculateRedemptionValue, a static that reads `this.redemptionRules`
\* of the model (undefined) and throws TypeError before anything is written
redemptionChecks(r, w) ==
  LET c == [r EXCEPT !.seen = w, !.seenDay = today, !.seenAmount = r.amount] IN
    IF w.MTZ < r.amount THEN Fail(c, "insufficient")
    ELSE IF r.amount < token.minRedemption THEN Fail(c, "minimum")
    ELSE Fail(c, "TypeError")

\* kccController lines 270-288: the balance pre-check of recordKccPickup
pickupCheck(r, w) ==
  IF w.MTZ < r.amount THEN Fail(r, "insufficient")
  ELSE [r EXCEPT !.pc = "rp_stock"]

\* where control goes once getOrCreateWallet has returned the document w
gotWallet(r, w) ==
  IF r.caller = "cashRedemption" THEN redemptionChecks(r, w)
  ELSE IF r.caller = "recordKccPickup" THEN pickupCheck(r, w)
  ELSE balanceCheck(r, w)

\* mpesaController lines 363-370: the request, up to Promise.all
CashRedemptionCall(p) ==
  /\ CanStart(p)
  /\ \E userId \in Users, tokenAmount \in Amounts :
       proc' = [proc EXCEPT ![p] =
                  [Call(p, "cashRedemption", userId, userId, tokenAmount)
                     EXCEPT !.pc = "gw_find", !.caller = "cashRedemption"]]
  /\ ncalls' = ncalls + 1
  /\ UNCHANGED <<wallet, txlog, token, activity, today, milk>>

\* getOrCreateWallet line 70: findOne({ user: userId })
GetOrCreateWalletFind(p) ==
  /\ proc[p].pc = "gw_find"
  /\ LET r == proc[p] IN
       proc' = [proc EXCEPT ![p] =
                  IF wallet[r.from].exists
                    THEN gotWallet(r, wallet[r.from])
                    ELSE [r EXCEPT !.pc = "gw_create"]]
  /\ UNCHANGED <<wallet, txlog, token, activity, today, ncalls, milk>>

\* getOrCreateWallet line 72: create({ user }), unique index on user
GetOrCreateWalletCreate(p) ==
  /\ proc[p].pc = "gw_create"
  /\ canWrite(p, proc[p].from)
  /\ LET r == proc[p]
         w == [NewWallet(today) EXCEPT !.v = wallet[r.from].v + 1] IN
       IF wallet[r.from].exists
         THEN /\ proc' = [proc EXCEPT ![p] = Fail(r, "duplicate")]
              /\ UNCHANGED wallet
         ELSE /\ wallet' = [wallet EXCEPT ![r.from] = w]
              /\ proc' = [proc EXCEPT ![p] = gotWallet(r, w)]
  /\ UNCHANGED <<txlog, token, activity, today, ncalls, milk>>

\* a save that adds the payment to the tokensAmount the entry holds
completedAdding(t, tokensAmount) ==
  [t EXCEPT !.tokensAmount = @ + tokensAmount, !.status = "completed"]
\* a status update that leaves tokensAmount as it was
completedOnly(t, tokensAmount) == [t EXCEPT !.status = "completed"]
\* the two-phase entry after the save() of the settlement handler
completed(t, tokensAmount) ==
  [t EXCEPT !.tokensAmount = tokensAmount, !.status = "completed"]

\* depotController lines 616-619: depositTx.save()
ProcessTokenPaymentSave(p) ==
  /\ proc[p].pc = "settle_save"
  /\ proc[p].caller = "processTokenPayment"
  /\ LET r == proc[p] IN
       IF ~transactionValid(r.amount)
         THEN /\ proc' = [proc EXCEPT ![p] = Fail(r, "validation")]
              /\ UNCHANGED txlog
         ELSE /\ txlog' = [txlog EXCEPT ![r.txid] = completed(@, r.amount)]
              /\ proc' = [proc EXCEPT ![p] = ended(r, "done")]
  /\ UNCHANGED <<wallet, token, activity, today, ncalls, milk>>

\* kccController lines 408-411: pickupTx.save()
ProcessKccPaymentSave(p) ==
  /\ proc[p].pc = "settle_save"
  /\ proc[p].caller = "processKccPayment"
  /\ LET r == proc[p] IN
       IF ~transactionValid(r.amount)
         THEN /\ proc' = [proc EXCEPT ![p] = Fail(r, "validation")]
              /\ UNCHANGED txlog
         ELSE /\ txlog' = [txlog EXCEPT ![r.txid] = completed(@, r.amount)]
              /\ proc' = [proc EXCEPT ![p] = ended(r, "done")]
  /\ UNCHANGED <<wallet, token, activity, today, ncalls, milk>>

\* depotController line 619, kccController line 411: the save() rejects (the
\* database does not answer); the catch block (depotController lines 648-654,
\* kccController lines 434-440) answers 400 and writes nothing
SettleSaveFails(p) ==
  /\ proc[p].pc = "settle_save"
  /\ proc' = [proc EXCEPT ![p] = Fail(proc[p], "save")]
  /\ UNCHANGED <<wallet, txlog, token, activity, today, ncalls, milk>>

\* ------------------------------------------------------- recordMilkDeposit
\* depotController line 385: User.findOne({ phone, role: 'farmer' }); one
\* farmer is registered, and their account is active
farmerByPhone(phone) == IF phone = "0700" THEN "f1" ELSE "none"

\* generateDepositCode (lines 336-352): the sequence number after that of the
\* latest transaction of the depot that carries a deposit code
generateDepositCode ==
  LET S == {k \in 1..Len(txlog) : txlog[k].depositCode # 0} IN
  IF S = {} THEN 1
  ELSE txlog[CHOOSE k \in S : \A j \in S : j <= k].depositCode + 1

\* unique sparse index on depositCode
duplicateCode(code) == \E k \in 1..Len(txlog) : txlog[k].depositCode = code

\* the milk_deposit document of depotController lines 435-449
milkDeposit(r) ==
  [type |-> "milk_deposit", fromUser |-> r.to, toUser |-> r.to,
   attendant |-> r.from, kccAttendant |-> "none", depot |-> "d1",
   litersRaw |-> r.amount, tokensAmount |-> 0, fee |-> 0,
   status |-> "pending", reference |-> reference(r.count),
   depositCode |-> r.code, cid |-> r.cid]

\* schema validator `litersRaw: { min: 0 }`
litersValid(liters) == liters >= 0

\* depotController lines 371-399: the request, the depot authorisation of the
\* attendant and the farmer lookup
RecordMilkDepositCall(p) ==
  /\ CanStart(p)
  /\ \E attendantId \in {"u1", "u2"}, farmerPhone \in {"0700", "0000"},
        liters \in Amounts :
       LET r == [Call(p, "recordMilkDeposit", attendantId,
                      farmerByPhone(farmerPhone), liters)
                   EXCEPT !.caller = "recordMilkDeposit"] IN
       proc' = [proc EXCEPT ![p] =
                  IF assignedDepot(attendantId) # "d1"
                    THEN Fail(r, "forbidden")
                  ELSE IF farmerByPhone(farmerPhone) = "none"
                    THEN Fail(r, "nofarmer")
                  ELSE [r EXCEPT !.pc = "rd_find"]]
  /\ ncalls' = ncalls + 1
  /\ UNCHANGED <<wallet, txlog, token, activity, today, milk>>

\* depotController lines 401-427: Depot.findById, the status check and the
\* capacity check
RecordMilkDepositFind(p) ==
  /\ proc[p].pc = "rd_find"
  /\ LET r == [proc[p] EXCEPT !.depotDoc = depot, !.depotBase = depot,
                              !.seenStock = depot.rawMilk] IN
       proc' = [proc EXCEPT ![p] =
                  IF depot.status # "active" THEN Fail(r, "inactive")
                  ELSE IF ~canAcceptDeposit(depot, r.amount)
                    THEN Fail(r, "capacity")
                  ELSE [r EXCEPT !.pc = "rd_code"]]
  /\ UNCHANGED <<wallet, txlog, token, activity, today, ncalls, milk>>

\* depotController line 431: generateDepositCode
RecordMilkDepositCode(p) ==
  /\ proc[p].pc = "rd_code"
  /\ proc' = [proc EXCEPT ![p] =
                [@ EXCEPT !.pc = "rd_count", !.code = generateDepositCode]]
  /\ UNCHANGED <<wallet, txlog, token, activity, today, ncalls, milk>>

\* depotController line 435, pre('save'): validation and countDocuments()
RecordMilkDepositCount(p) ==
  /\ proc[p].pc = "rd_count"
  /\ LET r == proc[p] IN
       proc' = [proc EXCEPT ![p] =
         IF ~litersValid(r.amount) THEN Fail(r, "validation")
         ELSE [r EXCEPT !.pc = "rd_insert", !.count = Len(txlog)]]
  /\ UNCHANGED <<wallet, txlog, token, activity, today, ncalls, milk>>

\* depotController lines 435-449: the insert of Transaction.create; the unique
\* indexes on reference, depositCode and shortCode (six random characters,
\* which may repeat those of an earlier deposit) make it throw E11000
RecordMilkDepositInsert(p) ==
  /\ proc[p].pc = "rd_insert"
  /\ \E collision \in BOOLEAN :
       LET r == proc[p] IN
       /\ collision => \E k \in 1..Len(txlog) : txlog[k].type = "milk_deposit"
       /\ IF \/ duplicateKey(reference(r.count))
             \/ duplicateCode(r.code)
             \/ collision
            THEN /\ proc' = [proc EXCEPT ![p] = Fail(r, "duplicate")]
                 /\ UNCHANGED txlog
            ELSE /\ txlog' = Append(txlog, milkDeposit(r))
                 /\ proc' = [proc EXCEPT ![p] =
                               [r EXCEPT !.pc = "rd_stock", !.nlog = @ + 1]]
  /\ UNCHANGED <<wallet, token, activity, today, ncalls, milk>>

\* depotController line 452: depot.addMilkStock(liters, 'raw')
RecordMilkDepositStock(p) ==
  /\ proc[p].pc = "rd_stock"
  /\ LET r == proc[p]
         d == addMilkStock(r.depotDoc, r.amount, "raw") IN
       IF ~depotValid(d)
         THEN /\ proc' = [proc EXCEPT ![p] = Fail(r, "validation")]
              /\ UNCHANGED depot
         ELSE /\ depot' = setModifiedDepot(depot, r.depotBase, d)
              /\ proc' = [proc EXCEPT ![p] =
                            ended([r EXCEPT !.stocked = TRUE], "done")]
  /\ UNCHANGED <<wallet, txlog, token, activity, delivery, today, ncalls>>

\* --------------------------------------------------------- recordKccPickup
\* the kcc_pickup document of kccController lines 308-319
kccPickup(r) ==
  [type |-> "kcc_pickup", fromUser |-> r.to, toUser |-> r.from,
   attendant |-> r.from, kccAttendant |-> r.from, depot |-> "d1",
   litersRaw |-> r.amount, tokensAmount |-> 0, fee |-> 0,
   status |-> "pending", reference |-> reference(r.count),
   depositCode |-> 0, cid |-> r.cid]

\* kccController lines 190-208: the request and the role check; the depot
\* attendant of line 244 is u1
RecordKccPickupCall(p) ==
  /\ CanStart(p)
  /\ \E kccAttendantId \in Users, litersRaw \in Amounts :
       LET r == [Call(p, "recordKccPickup", kccAttendantId, "u1", litersRaw)
                   EXCEPT !.caller = "recordKccPickup"] IN
       proc' = [proc EXCEPT ![p] =
                  IF role(kccAttendantId) # "kcc_attendant"
                    THEN Fail(r, "forbidden")
                    ELSE [r EXCEPT !.pc = "rp_pending"]]
  /\ ncalls' = ncalls + 1
  /\ UNCHANGED <<wallet, txlog, token, activity, today, milk>>

\* kccController lines 211-239: Transaction.find of the caller's pending
\* pickups
RecordKccPickupPending(p) ==
  /\ proc[p].pc = "rp_pending"
  /\ LET r == proc[p] IN
       proc' = [proc EXCEPT ![p] =
                  IF \E k \in 1..Len(txlog) : pendingPickup(txlog[k], r.from)
                    THEN Fail(r, "pending")
                    ELSE [r EXCEPT !.pc = "rp_find"]]
  /\ UNCHANGED <<wallet, txlog, token, activity, today, ncalls, milk>>

\* kccController lines 242-267: Depot.findById and the stock check
RecordKccPickupFind(p) ==
  /\ proc[p].pc = "rp_find"
  /\ LET r == [proc[p] EXCEPT !.depotDoc = depot, !.depotBase = depot,
                              !.seenStock = depot.rawMilk] IN
       proc' = [proc EXCEPT ![p] =
                  IF depot.rawMilk < r.amount THEN Fail(r, "stock")
                  ELSE [r EXCEPT !.pc = "gw_find"]]
  /\ UNCHANGED <<wallet, txlog, token, activity, today, ncalls, milk>>

\* kccController lines 299-305: depot.removeMilkStock(litersRaw, 'raw')
RecordKccPickupStock(p) ==
  /\ proc[p].pc = "rp_stock"
  /\ LET r == proc[p]
         d == removeMilkStock(r.depotDoc, r.amount, "raw") IN
       IF ~hasMilkStock(r.depotDoc, r.amount, "raw")
         THEN /\ proc' = [proc EXCEPT ![p] = Fail(r, "stock")]
              /\ UNCHANGED depot
       ELSE IF ~depotValid(d)
         THEN /\ proc' = [proc EXCEPT ![p] = Fail(r, "validation")]
              /\ UNCHANGED depot
         ELSE /\ depot' = setModifiedDepot(depot, r.depotBase, d)
              /\ proc' = [proc EXCEPT ![p] =
                            [r EXCEPT !.pc = "rp_count", !.depotDoc = d,
                                      !.depotBase = d, !.stocked = TRUE]]
  /\ UNCHANGED <<wallet, txlog, token, activity, delivery, today, ncalls>>

\* kccController line 308, pre('save'): validation and countDocuments()
RecordKccPickupCount(p) ==
  /\ proc[p].pc = "rp_count"
  /\ LET r == proc[p] IN
       proc' = [proc EXCEPT ![p] =
         IF ~litersValid(r.amount) THEN Fail(r, "validation")
         ELSE [r EXCEPT !.pc = "rp_insert", !.count = Len(txlog)]]
  /\ UNCHANGED <<wallet, txlog, token, activity, today, ncalls, milk>>

\* kccController lines 308-319: the insert of Transaction.create
RecordKccPickupInsert(p) ==
  /\ proc[p].pc = "rp_insert"
  /\ LET r == proc[p] IN
       IF duplicateKey(reference(r.count))
         THEN /\ proc' = [proc EXCEPT ![p] = Fail(r, "duplicate")]
              /\ UNCHANGED txlog
         ELSE /\ txlog' = Append(txlog, kccPickup(r))
              /\ proc' = [proc EXCEPT ![p] =
                            ended([r EXCEPT !.nlog = @ + 1], "done")]
  /\ UNCHANGED <<wallet, token, activity, today, ncalls, milk>>

\* ----------------------------------------------------------- pickup signal
\* a handler loads the depot document
loaded(r) == [r EXCEPT !.depotDoc = depot, !.depotBase = depot]

\* depotController lines 1530-1542: the request, Depot.findById of the
\* requireAssignedDepot middleware, and canCreatePickupSignal
SignalPickupAvailableLoad(p) ==
  /\ CanStart(p)
  /\ \E estimatedLiters \in Amounts :
       LET r == loaded([Call(p, "signalPickupAvailable", "u1", "u1",
                             estimatedLiters)
                          EXCEPT !.caller = "signalPickupAvailable"]) IN
       proc' = [proc EXCEPT ![p] =
                  IF ~canCreatePickupSignal(depot) THEN Fail(r, "cannot")
                  ELSE [r EXCEPT !.pc = "sp_save"]]
  /\ ncalls' = ncalls + 1
  /\ UNCHANGED <<wallet, txlog, token, activity, today, milk>>

\* depotController line 1548: depot.createPickupSignal(litersToSignal)
SignalPickupAvailableSave(p) ==
  /\ proc[p].pc = "sp_save"
  /\ LET r == proc[p]
         d == createPickupSignal(r.depotDoc, r.amount, expiry(r.cid)) IN
       IF ~signalValid(d)
         THEN /\ proc' = [proc EXCEPT ![p] = Fail(r, "validation")]
              /\ UNCHANGED depot
         ELSE /\ depot' = savedSignal(depot, d)
              /\ proc' = [proc EXCEPT ![p] =
                            ended([r EXCEPT !.stocked = TRUE], "done")]
  /\ UNCHANGED <<wallet, txlog, token, activity, delivery, today, ncalls>>

\* depotController lines 1588-1598: the request, the middleware's
\* Depot.findById and the status check
CancelPickupSignalLoad(p) ==
  /\ CanStart(p)
  /\ LET r == loaded([Call(p, "cancelPickupSignal", "u1", "u1", 0)
                        EXCEPT !.caller = "cancelPickupSignal"]) IN
       proc' = [proc EXCEPT ![p] =
                  IF depot.sigStatus # "available" THEN Fail(r, "nosignal")
                  ELSE [r EXCEPT !.pc = "cn_save"]]
  /\ ncalls' = ncalls + 1
  /\ UNCHANGED <<wallet, txlog, token, activity, today, milk>>

\* depotController line 1601: depot.cancelPickupSignal()
CancelPickupSignalSave(p) ==
  /\ proc[p].pc = "cn_save"
  /\ LET r == proc[p]
         d == [r.depotDoc EXCEPT !.sigStatus = "cancelled"] IN
       /\ depot' = setModifiedDepot(depot, r.depotBase, d)
       /\ proc' = [proc EXCEPT ![p] =
                     ended([r EXCEPT !.stocked = TRUE], "done")]
  /\ UNCHANGED <<wallet, txlog, token, activity, delivery, today, ncalls>>

\* depotController lines 1629-1634: the request, the middleware's
\* Depot.findById and the expiry test of checkAndExpirePickupSignal
GetPickupSignalStatusLoad(p) ==
  /\ CanStart(p)
  /\ LET r == loaded([Call(p, "getPickupSignalStatus", "u1", "u1", 0)
                        EXCEPT !.caller = "getPickupSignalStatus"]) IN
       proc' = [proc EXCEPT ![p] =
                  IF mustExpire(depot) THEN [r EXCEPT !.pc = "gs_expire"]
                  ELSE ended(r, "done")]
  /\ ncalls' = ncalls + 1
  /\ UNCHANGED <<wallet, txlog, token, activity, today, milk>>

\* Depot.js lines 199-200: status 'expired' and save()
GetPickupSignalStatusExpire(p) ==
  /\ proc[p].pc = "gs_expire"
  /\ LET r == proc[p]
         d == [r.depotDoc EXCEPT !.sigStatus = "expired"] IN
       /\ depot' = setModifiedDepot(depot, r.depotBase, d)
       /\ proc' = [proc EXCEPT ![p] =
                     ended([r EXCEPT !.stocked = TRUE], "done")]
  /\ UNCHANGED <<wallet, txlog, token, activity, delivery, today, ncalls>>

\* depotController lines 1696-1706: the request and Depot.findById
ClearPickupSignalLoad(p) ==
  /\ CanStart(p)
  /\ proc' = [proc EXCEPT ![p] =
                [loaded([Call(p, "clearPickupSignalAfterPickup", "u1", "u1",
                              0)
                           EXCEPT !.caller = "clearPickupSignalAfterPickup"])
                   EXCEPT !.pc = "cl_save"]]
  /\ ncalls' = ncalls + 1
  /\ UNCHANGED <<wallet, txlog, token, activity, today, milk>>

\* depotController line 1709: depot.clearPickupSignal()
ClearPickupSignalSave(p) ==
  /\ proc[p].pc = "cl_save"
  /\ LET r == proc[p] IN
       /\ depot' = savedSignal(depot, clearPickupSignal(r.depotDoc))
       /\ proc' = [proc EXCEPT ![p] =
                     ended([r EXCEPT !.stocked = TRUE], "done")]
  /\ UNCHANGED <<wallet, txlog, token, activity, delivery, today, ncalls>>

\* Depot.location.county and KccBranch.location.county: the depot and both
\* branches lie in the same county
county(place) == "Nandi"

\* kccController lines 880-928: the request, the role and county checks,
\* Depot.findById, the expiry test of getPickupSignalStatus and, when the
\* signal is not due to expire, the status check
AcceptPickupSignalLoad(p) ==
  /\ CanStart(p)
  /\ \E kccAttendantId \in Users :
       LET r == loaded([Call(p, "acceptPickupSignal", kccAttendantId,
                             kccAttendantId, 0)
                          EXCEPT !.caller = "acceptPickupSignal"]) IN
       proc' = [proc EXCEPT ![p] =
                  IF role(kccAttendantId) # "kcc_attendant"
                    THEN Fail(r, "forbidden")
                  ELSE IF county("d1") # county(assignedKcc(kccAttendantId))
                    THEN Fail(r, "county")
                  ELSE IF mustExpire(depot) THEN [r EXCEPT !.pc = "ac_expire"]
                  ELSE IF depot.sigStatus # "available"
                    THEN Fail(r, "unavailable")
                  ELSE [r EXCEPT !.pc = "ac_pending"]]
  /\ ncalls' = ncalls + 1
  /\ UNCHANGED <<wallet, txlog, token, activity, today, milk>>

\* Depot.js lines 199-200 under kccController line 918: status 'expired' and
\* save(); the status check of line 920 then rejects the request
AcceptPickupSignalExpire(p) ==
  /\ proc[p].pc = "ac_expire"
  /\ LET r == proc[p]
         d == [r.depotDoc EXCEPT !.sigStatus = "expired"] IN
       /\ depot' = setModifiedDepot(depot, r.depotBase, d)
       /\ proc' = [proc EXCEPT ![p] =
                     Fail([r EXCEPT !.stocked = TRUE], "unavailable")]
  /\ UNCHANGED <<wallet, txlog, token, activity, delivery, today, ncalls>>

\* kccController lines 931-948: Transaction.find of the caller's pending
\* pickups
AcceptPickupSignalPending(p) ==
  /\ proc[p].pc = "ac_pending"
  /\ LET r == proc[p] IN
       proc' = [proc EXCEPT ![p] =
                  IF \E k \in 1..Len(txlog) : pendingPickup(txlog[k], r.from)
                    THEN Fail(r, "pending")
                    ELSE [r EXCEPT !.pc = "ac_save"]]
  /\ UNCHANGED <<wallet, txlog, token, activity, today, ncalls, milk>>

\* kccController lines 954-956: status 'accepted', acceptedBy and save()
AcceptPickupSignalSave(p) ==
  /\ proc[p].pc = "ac_save"
  /\ LET r == proc[p]
         d == [r.depotDoc EXCEPT !.sigStatus = "accepted",
                                 !.sigAcceptedBy = r.from] IN
       /\ depot' = setModifiedDepot(depot, r.depotBase, d)
       /\ proc' = [proc EXCEPT ![p] =
                     ended([r EXCEPT !.stocked = TRUE], "done")]
  /\ UNCHANGED <<wallet, txlog, token, activity, delivery, today, ncalls>>

\* kccController lines 1067-1069 and 1117-1119: the signal is accepted, and
\* by the caller
acceptedByAnyone(d, kccAttendantId) == d.sigStatus = "accepted"
acceptedByCaller(d, kccAttendantId) ==
  d.sigStatus = "accepted" /\ d.sigAcceptedBy = kccAttendantId

\* where control goes after the check of lines 1067-1074 and 1117-1124;
\* `acceptedBy.toString()` of a null acceptedBy throws TypeError
ownerCheck(r, pc) ==
  IF depot.sigStatus = "accepted" /\ depot.sigAcceptedBy = "none"
    THEN Fail(r, "TypeError")
  ELSE IF ~acceptedByCaller(depot, r.from) THEN Fail(r, "notaccepted")
  ELSE [r EXCEPT !.pc = pc]

\* kccController lines 1053-1074: the request, Depot.findById and the check
CompletePickupSignalLoad(p) ==
  /\ CanStart(p)
  /\ \E kccAttendantId \in Users :
       proc' = [proc EXCEPT ![p] =
                  ownerCheck(loaded([Call(p, "completePickupSignal",
                                          kccAttendantId, kccAttendantId, 0)
                                       EXCEPT !.caller =
                                                "completePickupSignal"]),
                             "cp_save")]
  /\ ncalls' = ncalls + 1
  /\ UNCHANGED <<wallet, txlog, token, activity, today, milk>>

\* kccController line 1077: depot.completePickupSignal()
CompletePickupSignalSave(p) ==
  /\ proc[p].pc = "cp_save"
  /\ LET r == proc[p]
         d == [r.depotDoc EXCEPT !.sigStatus = "completed"] IN
       /\ depot' = setModifiedDepot(depot, r.depotBase, d)
       /\ proc' = [proc EXCEPT ![p] =
                     ended([r EXCEPT !.stocked = TRUE], "done")]
  /\ UNCHANGED <<wallet, txlog, token, activity, delivery, today, ncalls>>

\* kccController lines 1103-1124: the request, Depot.findById and the check
ReleasePickupSignalLoad(p) ==
  /\ CanStart(p)
  /\ \E kccAttendantId \in Users :
       proc' = [proc EXCEPT ![p] =
                  ownerCheck(loaded([Call(p, "releasePickupSignal",
                                          kccAttendantId, kccAttendantId, 0)
                                       EXCEPT !.caller =
                                                "releasePickupSignal"]),
                             "rl_save")]
  /\ ncalls' = ncalls + 1
  /\ UNCHANGED <<wallet, txlog, token, activity, today, milk>>

\* kccController lines 1127-1129: status 'available', acceptedBy null, save()
ReleasePickupSignalSave(p) ==
  /\ proc[p].pc = "rl_save"
  /\ LET r == proc[p]
         d == [r.depotDoc EXCEPT !.sigStatus = "available",
                                 !.sigAcceptedBy = "none"] IN
       /\ depot' = setModifiedDepot(depot, r.depotBase, d)
       /\ proc' = [proc EXCEPT ![p] =
                     ended([r EXCEPT !.stocked = TRUE], "done")]
  /\ UNCHANGED <<wallet, txlog, token, activity, delivery, today, ncalls>>

\* the clock passes expiresAt of the stored signal
SignalExpires ==
  /\ depot.sigExpiresAt # 0
  /\ ~depot.sigPast
  /\ depot' = [depot EXCEPT !.sigPast = TRUE]
  /\ UNCHANGED <<wallet, txlog, token, activity, delivery, today, proc,
                 ncalls>>

\* Depot.cleanupExpiredPickupSignals: one updateMany
CleanupNotYetExpired ==
  /\ depot.sigStatus = "available"
  /\ depot.sigExpiresAt # 0 /\ ~depot.sigPast
  /\ depot' = [depot EXCEPT !.sigStatus = "expired"]
  /\ UNCHANGED <<wallet, txlog, token, activity, delivery, today, proc,
                 ncalls>>
CleanupExpiredPickupSignals ==
  /\ depot.sigStatus = "available"
  /\ depot.sigExpiresAt # 0 /\ depot.sigPast
  /\ depot' = [depot EXCEPT !.sigStatus = "expired"]
  /\ UNCHANGED <<wallet, txlog, token, activity, delivery, today, proc,
                 ncalls>>

\* ------------------------------------------------------ confirmKccDelivery
\* kccController lines 648-653: the filter of findOne (one request, whose
\* qrCode the caller presents)
deliveryFilterAnyBranch(d, kccAttendantId) ==
  d.exists /\ d.status = "pending" /\ ~d.past
deliveryFilter(d, kccAttendantId) ==
  /\ d.exists
  /\ d.assignedKcc = assignedKcc(kccAttendantId)
  /\ d.status = "pending"
  /\ ~d.past

\* kccController lines 635-645: the request and the role check
ConfirmKccDeliveryCall(p) ==
  /\ CanStart(p)
  /\ \E kccAttendantId \in Users :
       LET r == [Call(p, "confirmKccDelivery", kccAttendantId,
                      kccAttendantId, 0)
                   EXCEPT !.caller = "confirmKccDelivery"] IN
       proc' = [proc EXCEPT ![p] =
                  IF role(kccAttendantId) # "kcc_attendant"
                    THEN Fail(r, "forbidden")
                    ELSE [r EXCEPT !.pc = "cd_find"]]
  /\ ncalls' = ncalls + 1
  /\ UNCHANGED <<wallet, txlog, token, activity, today, milk>>

\* kccController lines 648-670: findOne with populate('depot'), then the
\* capacity check on the populated depot
ConfirmKccDeliveryFind(p) ==
  /\ proc[p].pc = "cd_find"
  /\ LET r == [proc[p] EXCEPT !.seenStatus = delivery.status] IN
       proc' = [proc EXCEPT ![p] =
         IF ~deliveryFilter(delivery, r.to) THEN Fail(r, "invalid")
         ELSE IF ~canAcceptDeposit(depot, delivery.litersRequested)
           THEN Fail(r, "capacity")
         ELSE [r EXCEPT !.pc = "gw_find",
                        !.from = delivery.depotAttendant,
                        !.amount = delivery.litersRequested,
                        !.depotDoc = depot, !.depotBase = depot]]
  /\ UNCHANGED <<wallet, txlog, token, activity, today, ncalls, milk>>

\* kccController line 689: depot.addMilkStock(liters, 'pasteurized')
ConfirmKccDeliveryStock(p) ==
  /\ proc[p].pc = "cd_stock"
  /\ LET r == proc[p]
         d == addMilkStock(r.depotDoc, r.amount, "pasteurized") IN
       IF ~depotValid(d)
         THEN /\ proc' = [proc EXCEPT ![p] = Fail(r, "validation")]
              /\ UNCHANGED depot
         ELSE /\ depot' = setModifiedDepot(depot, r.depotBase, d)
              /\ proc' = [proc EXCEPT ![p] =
                            [r EXCEPT !.pc = "cd_count", !.depotDoc = d,
                                      !.depotBase = d, !.stocked = TRUE]]
  /\ UNCHANGED <<wallet, txlog, token, activity, delivery, today, ncalls>>

\* the kcc_delivery document of kccController lines 692-703
kccDelivery(r) ==
  [type |-> "kcc_delivery", fromUser |-> r.to, toUser |-> r.from,
   attendant |-> r.from, kccAttendant |-> r.to, depot |-> "d1",
   litersRaw |-> 0, tokensAmount |-> r.amount, fee |-> 0,
   status |-> "completed", reference |-> reference(r.count),
   depositCode |-> 0, cid |-> r.cid]

\* kccController line 692, pre('save'): validation and countDocuments()
ConfirmKccDeliveryCount(p) ==
  /\ proc[p].pc = "cd_count"
  /\ LET r == proc[p] IN
       proc' = [proc EXCEPT ![p] =
         IF ~transactionValid(r.amount) THEN Fail(r, "validation")
         ELSE [r EXCEPT !.pc = "cd_insert", !.count = Len(txlog)]]
  /\ UNCHANGED <<wallet, txlog, token, activity, today, ncalls, milk>>

\* kccController lines 692-703: the insert of Transaction.create
ConfirmKccDeliveryInsert(p) ==
  /\ proc[p].pc = "cd_insert"
  /\ LET r == proc[p] IN
       IF duplicateKey(reference(r.count))
         THEN /\ proc' = [proc EXCEPT ![p] = Fail(r, "duplicate")]
              /\ UNCHANGED txlog
         ELSE /\ txlog' = Append(txlog, kccDelivery(r))
              /\ proc' = [proc EXCEPT ![p] =
                            [r EXCEPT !.pc = "cd_save", !.nlog = @ + 1]]
  /\ UNCHANGED <<wallet, token, activity, today, ncalls, milk>>

\* kccController lines 706-710: deliveryRequest.save(); a document that is
\* no longer in the collection makes save() throw DocumentNotFoundError
ConfirmKccDeliverySave(p) ==
  /\ proc[p].pc = "cd_save"
  /\ LET r == proc[p] IN
       IF ~delivery.exists
         THEN /\ proc' = [proc EXCEPT ![p] = Fail(r, "notfound")]
              /\ UNCHANGED delivery
         ELSE /\ delivery' = [delivery EXCEPT !.status = "completed",
                                              !.completedBy = r.to]
              /\ proc' = [proc EXCEPT ![p] = ended(r, "done")]
  /\ UNCHANGED <<wallet, txlog, token, activity, depot, today, ncalls>>

\* the clock passes expiresAt of the request
DeliveryExpires ==
  /\ delivery.exists /\ ~delivery.past
  /\ delivery' = [delivery EXCEPT !.past = TRUE]
  /\ UNCHANGED <<wallet, txlog, token, activity, depot, today, proc, ncalls>>

\* part_002 lines 75-83: cleanupExpired, one updateMany
CleanupExpired ==
  /\ delivery.exists /\ delivery.status = "pending" /\ delivery.past
  /\ delivery' = [delivery EXCEPT !.status = "expired"]
  /\ UNCHANGED <<wallet, txlog, token, activity, depot, today, proc, ncalls>>

\* part_002 line 68: the TTL index on expiresAt removes the document
TtlDelete ==
  /\ delivery.exists /\ delivery.past
  /\ delivery' = [delivery EXCEPT !.exists = FALSE]
  /\ UNCHANGED <<wallet, txlog, token, activity, depot, today, proc, ncalls>>

\* ------------------------------------------------- mintTokens, burnTokens
\* the TokenActivity document of lines 436-442 / 462-468
activityOf(type, amount, t) ==
  [type |-> type, amount |-> amount, totalSupply |-> t.totalSupply,
   circulatingSupply |-> t.circulatingSupply]

\* lines 421-431: getToken(), the maxSupply check and the in-memory update
MintTokensGet(p) ==
  /\ CanStart(p)
  /\ \E amount \in Amounts :
       LET r == [Call(p, "mintTokens", "u1", "u1", amount)
                   EXCEPT !.tokBase = token] IN
       proc' = [proc EXCEPT ![p] =
         IF token.totalSupply + amount > token.maxSupply
           THEN Fail(r, "maxSupply")
         ELSE [r EXCEPT !.pc = "mint_save", !.tok = minted(token, amount)]]
  /\ ncalls' = ncalls + 1
  /\ UNCHANGED <<wallet, txlog, token, activity, today, milk>>

\* line 433: token.save()
MintTokensSave(p) ==
  /\ proc[p].pc = "mint_save"
  /\ LET r == proc[p] IN
       IF ~tokenValid(r.tok)
         THEN /\ proc' = [proc EXCEPT ![p] = Fail(r, "validation")]
              /\ UNCHANGED token
         ELSE /\ token' = setModifiedToken(token, r.tokBase, r.tok)
              /\ proc' = [proc EXCEPT ![p] =
                            [r EXCEPT !.pc = "mint_log", !.nw = @ + 1]]
  /\ UNCHANGED <<wallet, txlog, activity, today, ncalls, milk>>

\* lines 436-444: TokenActivity.create
MintTokensLog(p) ==
  /\ proc[p].pc = "mint_log"
  /\ activity' = Append(activity, activityOf("mint", proc[p].amount, proc[p].tok))
  /\ proc' = [proc EXCEPT ![p] = ended(proc[p], "done")]
  /\ UNCHANGED <<wallet, txlog, token, today, ncalls, milk>>

\* lines 448-457: getToken(), the circulating-supply check, the update
BurnTokensGet(p) ==
  /\ CanStart(p)
  /\ \E amount \in Amounts :
       LET r == [Call(p, "burnTokens", "u1", "u1", amount)
                   EXCEPT !.tokBase = token] IN
       proc' = [proc EXCEPT ![p] =
         IF token.circulatingSupply < amount
           THEN Fail(r, "supply")
         ELSE [r EXCEPT !.pc = "burn_save", !.tok = burned(token, amount)]]
  /\ ncalls' = ncalls + 1
  /\ UNCHANGED <<wallet, txlog, token, activity, today, milk>>

\* line 459: token.save()
BurnTokensSave(p) ==
  /\ proc[p].pc = "burn_save"
  /\ LET r == proc[p] IN
       IF ~tokenValid(r.tok)
         THEN /\ proc' = [proc EXCEPT ![p] = Fail(r, "validation")]
              /\ UNCHANGED token
         ELSE /\ token' = setModifiedToken(token, r.tokBase, r.tok)
              /\ proc' = [proc EXCEPT ![p] =
                            [r EXCEPT !.pc = "burn_log", !.nw = @ + 1]]
  /\ UNCHANGED <<wallet, txlog, activity, today, ncalls, milk>>

\* lines 462-470: TokenActivity.create
BurnTokensLog(p) ==
  /\ proc[p].pc = "burn_log"
  /\ activity' = Append(activity, activityOf("burn", proc[p].amount, proc[p].tok))
  /\ proc' = [proc EXCEPT ![p] = ended(proc[p], "done")]
  /\ UNCHANGED <<wallet, txlog, token, today, ncalls, milk>>

\* ------------------------------------------------------------------- clock
\* midnight passes
NextDay ==
  /\ today < MaxDay
  /\ today' = today + 1
  /\ UNCHANGED <<wallet, txlog, token, activity, proc, ncalls, milk>>

\* --------------------------------------------------------- initial state
InitWallets ==
  [u \in Users |->
     IF u = "u1" THEN [NewWallet(0) EXCEPT !.MTZ = 1, !.dailySendLimit = 2]
     ELSE IF u = "u2" THEN [NewWallet(0) EXCEPT !.MTZ = 2, !.dailySendLimit = 1]
     ELSE NoWallet]

\* the Token document: the supply minted so far is in circulation,
\* supplyControl.maxSupply leaves room for one more unit, and
\* redemptionRules.minRedemption is as the admin has set it
InitToken ==
  [totalSupply |-> 4, circulatingSupply |-> 4, burnedSupply |-> 0,
   maxSupply |-> 5, minRedemption |-> 1]

Init ==
  /\ wallet = InitWallets
  /\ txlog = <<>>
  /\ token = InitToken
  /\ activity = <<>>
  /\ depot = InitDepot
  /\ delivery = NoDelivery
  /\ today = 0
  /\ proc = [p \in Procs |-> Idle]
  /\ ncalls = 0

Next ==
  \/ \E p \in Procs : SimpleTransferFind(p)
  \/ \E p \in Procs : SimpleTransferGetTo(p)
  \/ \E p \in Procs : SimpleTransferCreateTo(p)
  \/ \E p \in Procs : SimpleTransferDeduct(p)
  \/ \E p \in Procs : SimpleTransferAdd(p)
  \/ \E p \in Procs : TransferTokensCall(p)
  \/ \E p \in Procs : TransferTokensFind(p)
  \/ \E p \in Procs : TransferTokensGetTo(p)
  \/ \E p \in Procs : TransferTokensDeduct(p)
  \/ \E p \in Procs : TransferTokensAdd(p)
  \/ \E p \in Procs : TransferTokensCount(p)
  \/ \E p \in Procs : TransferTokensInsert(p)
  \/ \E p \in Procs : TransferTokensCommit(p)
  \/ \E p \in Procs : CommitFails(p)
  \/ \E p \in Procs : AbortTransaction(p)
  \/ NextDay

Spec == Init /\ [][Next]_vars

\* bulkTransfer, next to transferTokens calls on the same wallets
NextBulk ==
  \/ \E p \in Procs : BulkTransferCall(p)
  \/ \E p \in Procs : BulkTransferFind(p)
  \/ \E p \in Procs : BulkTransferGetTo(p)
  \/ \E p \in Procs : BulkTransferDeduct(p)
  \/ \E p \in Procs : BulkTransferAdd(p)
  \/ \E p \in Procs : BulkTransferCount(p)
  \/ \E p \in Procs : BulkTransferInsert(p)
  \/ \E p \in Procs : BulkTransferCommit(p)
  \/ \E p \in Procs : CommitFails(p)
  \/ \E p \in Procs : AbortTransaction(p)
  \/ NextDay

SpecBulk == Init /\ [][NextBulk]_vars

\* a recorded milk deposit (recordMilkDeposit lines 435-449) and a recorded
\* KCC pickup (recordKccPickup lines 308-319), both awaiting payment
PendingDeposit ==
  [type |-> "milk_deposit", fromUser |-> "u2", toUser |-> "u2",
   attendant |-> "u1", kccAttendant |-> "none", depot |-> "d1",
   litersRaw |-> 1, tokensAmount |-> 0, fee |-> 0, status |-> "pending",
   reference |-> 1, depositCode |-> 1, cid |-> 0]
PendingPickup ==
  [type |-> "kcc_pickup", fromUser |-> "u1", toUser |-> "u2",
   attendant |-> "u2", kccAttendant |-> "u2", depot |-> "d1",
   litersRaw |-> 1, tokensAmount |-> 0, fee |-> 0, status |-> "pending",
   reference |-> 2, depositCode |-> 0, cid |-> 0]

\* the depot attendant holds a float of tokens; the farmer, who is also the
\* KCC attendant of the pickup, has no wallet yet
SettleWallets ==
  [u \in Users |->
     IF u = "u1"
       THEN [NewWallet(0) EXCEPT !.MTZ = 2, !.dailySendLimit = 2]
       ELSE NoWallet]

InitSettle ==
  /\ wallet = SettleWallets
  /\ txlog = <<PendingDeposit, PendingPickup>>
  /\ token = InitToken
  /\ activity = <<>>
  /\ depot = InitDepot
  /\ delivery = NoDelivery
  /\ today = 0
  /\ proc = [p \in Procs |-> Idle]
  /\ ncalls = 0

\* the settlement handlers, each with its nested transferTokens
NextSettle ==
  \/ \E p \in Procs : ProcessTokenPaymentCall(p)
  \/ \E p \in Procs : ProcessTokenPaymentFind(p)
  \/ \E p \in Procs : ProcessKccPaymentFind(p)
  \/ \E p \in Procs : GetOrCreateWalletFind(p)
  \/ \E p \in Procs : GetOrCreateWalletCreate(p)
  \/ \E p \in Procs : TransferTokensFind(p)
  \/ \E p \in Procs : TransferTokensGetTo(p)
  \/ \E p \in Procs : TransferTokensDeduct(p)
  \/ \E p \in Procs : TransferTokensAdd(p)
  \/ \E p \in Procs : TransferTokensCount(p)
  \/ \E p \in Procs : TransferTokensInsert(p)
  \/ \E p \in Procs : TransferTokensCommit(p)
  \/ \E p \in Procs : CommitFails(p)
  \/ \E p \in Procs : AbortTransaction(p)
  \/ \E p \in Procs : ProcessTokenPaymentSave(p)
  \/ \E p \in Procs : ProcessKccPaymentSave(p)
  \/ \E p \in Procs : SettleSaveFails(p)

SpecSettle == InitSettle /\ [][NextSettle]_vars

\* transfers, settlements and redemptions on the same wallets
NextLedger ==
  \/ \E p \in Procs : ProcessTokenPaymentCall(p)
  \/ \E p \in Procs : ProcessTokenPaymentFind(p)
  \/ \E p \in Procs : ProcessKccPaymentFind(p)
  \/ \E p \in Procs : GetOrCreateWalletFind(p)
  \/ \E p \in Procs : GetOrCreateWalletCreate(p)
  \/ \E p \in Procs : TransferTokensFind(p)
  \/ \E p \in Procs : TransferTokensGetTo(p)
  \/ \E p \in Procs : TransferTokensDeduct(p)
  \/ \E p \in Procs : TransferTokensAdd(p)
  \/ \E p \in Procs : TransferTokensCount(p)
  \/ \E p \in Procs : TransferTokensInsert(p)
  \/ \E p \in Procs : TransferTokensCommit(p)
  \/ \E p \in Procs : CommitFails(p)
  \/ \E p \in Procs : AbortTransaction(p)
  \/ \E p \in Procs : ProcessTokenPaymentSave(p)
  \/ \E p \in Procs : ProcessKccPaymentSave(p)
  \/ \E p \in Procs : SettleSaveFails(p)
  \/ \E p \in Procs : TransferTokensCall(p)
  \/ \E p \in Procs : SimpleTransferFind(p)
  \/ \E p \in Procs : SimpleTransferGetTo(p)
  \/ \E p \in Procs : SimpleTransferCreateTo(p)
  \/ \E p \in Procs : SimpleTransferDeduct(p)
  \/ \E p \in Procs : SimpleTransferAdd(p)
  \/ \E p \in Procs : CashRedemptionCall(p)

SpecLedger == InitSettle /\ [][NextLedger]_vars

\* -------------------------------------------------- transferTokensWithFees
\* Wallet.js lines 96-141, called with the default `session = null`: every
\* save() below is a write of its own, and no transaction is started,
\* committed or aborted by the function

\* lines 111-116: canSend(amount + feeAmount) and the in-memory debit of
\* deductTokens (line 116), once both wallets are loaded
feeChecks(r) ==
  IF ~canSend(r.fromWallet, r.amount + r.fee, today)
    THEN Fail([r EXCEPT !.seen = r.fromWallet, !.seenDay = today,
                        !.seenAmount = r.amount + r.fee],
              whyNot(r.fromWallet, r.amount + r.fee, today))
  ELSE [r EXCEPT !.pc = "twf_deduct",
                 !.seen = r.fromWallet, !.seenDay = today,
                 !.seenAmount = r.amount + r.fee,
                 !.fromBase = r.fromWallet,
                 !.fromWallet = deductTokens(r.fromWallet, r.amount + r.fee, today)]

\* lines 104-107: findOne({ user: fromUserId }) and 'Sender wallet not found'
TransferWithFeesFind(p) ==
  /\ CanStart(p)
  /\ \E from \in Users, to \in Users, amount \in Amounts,
        feeAmount \in 0..MaxAmount :
       LET r == [Call(p, "transferTokensWithFees", from, to, amount)
                   EXCEPT !.fee = feeAmount, !.fromWallet = wallet[from]] IN
         proc' = [proc EXCEPT ![p] =
                    IF ~wallet[from].exists THEN Fail(r, "notfound")
                    ELSE [r EXCEPT !.pc = "twf_getTo"]]
  /\ ncalls' = ncalls + 1
  /\ UNCHANGED <<wallet, txlog, token, activity, today, milk>>

\* line 109, getOrCreateWalletInSession line 78: findOne({ user: toUserId })
TransferWithFeesGetTo(p) ==
  /\ proc[p].pc = "twf_getTo"
  /\ LET r == proc[p] IN
       proc' = [proc EXCEPT ![p] =
                  IF wallet[r.to].exists
                    THEN feeChecks([r EXCEPT !.toWallet = wallet[r.to],
                                             !.toBase = wallet[r.to]])
                    ELSE [r EXCEPT !.pc = "twf_createTo"]]
  /\ UNCHANGED <<wallet, txlog, token, activity, today, ncalls, milk>>

\* getOrCreateWalletInSession line 80: create([{ user }]), unique index on user
TransferWithFeesCreateTo(p) ==
  /\ proc[p].pc = "twf_createTo"
  /\ canWrite(p, proc[p].to)
  /\ LET r == proc[p]
         w == [NewWallet(today) EXCEPT !.v = wallet[r.to].v + 1] IN
       IF wallet[r.to].exists
         THEN /\ proc' = [proc EXCEPT ![p] = Fail(r, "duplicate")]
              /\ UNCHANGED wallet
         ELSE /\ wallet' = [wallet EXCEPT ![r.to] = w]
              /\ proc' = [proc EXCEPT ![p] =
                            feeChecks([r EXCEPT !.toWallet = w, !.toBase = w])]
  /\ UNCHANGED <<txlog, token, activity, today, ncalls, milk>>

\* line 116: the save() of deductTokens, then the in-memory credit of line 117
TransferWithFeesDeduct(p) ==
  /\ proc[p].pc = "twf_deduct"
  /\ canWrite(p, proc[p].from)
  /\ LET r == proc[p]
         after == saved(r.from, r.fromBase, r.fromWallet) IN
       IF ~walletValid(r.fromWallet)
         THEN /\ proc' = [proc EXCEPT ![p] = Fail(r, "validation")]
              /\ UNCHANGED wallet
         ELSE /\ wallet' = after
              /\ proc' = [proc EXCEPT ![p] =
                   [wrote(r, r.from, after) EXCEPT
                      !.pc = "twf_add", !.deb = TRUE,
                      !.fromBase = r.fromWallet,
                      !.toWallet = addTokens(r.toWallet, r.amount)]]
  /\ UNCHANGED <<txlog, token, activity, today, ncalls, milk>>

\* line 117: the save() of addTokens; line 119: `if (feeAmount > 0)`
TransferWithFeesAdd(p) ==
  /\ proc[p].pc = "twf_add"
  /\ canWrite(p, proc[p].to)
  /\ LET r == proc[p]
         after == saved(r.to, r.toBase, r.toWallet) IN
       IF ~walletValid(r.toWallet)
         THEN /\ proc' = [proc EXCEPT ![p] = Fail(r, "validation")]
              /\ UNCHANGED wallet
         ELSE /\ wallet' = after
              /\ proc' = [proc EXCEPT ![p] =
                   [wrote(r, r.to, after) EXCEPT
                      !.cred = TRUE,
                      !.pc = IF r.fee > 0 THEN "twf_adminFind" ELSE "twf_count"]]
  /\ UNCHANGED <<txlog, token, activity, today, ncalls, milk>>

\* transferFeeToAdmin line 88, getOrCreateWalletInSession line 78:
\* findOne({ user: ADMIN_USER_ID }), then the in-memory credit of line 92
TransferFeeToAdminFind(p) ==
  /\ proc[p].pc = "twf_adminFind"
  /\ LET r == proc[p]
         w == wallet[ADMIN_USER_ID] IN
       proc' = [proc EXCEPT ![p] =
                  IF w.exists
                    THEN [r EXCEPT !.pc = "twf_adminAdd", !.toBase = w,
                                   !.toWallet = addTokens(w, r.fee)]
                    ELSE [r EXCEPT !.pc = "twf_adminCreate"]]
  /\ UNCHANGED <<wallet, txlog, token, activity, today, ncalls, milk>>

\* getOrCreateWalletInSession line 80: create([{ user: ADMIN_USER_ID }])
TransferFeeToAdminCreate(p) ==
  /\ proc[p].pc = "twf_adminCreate"
  /\ canWrite(p, ADMIN_USER_ID)
  /\ LET r == proc[p]
         w == [NewWallet(today) EXCEPT !.v = wallet[ADMIN_USER_ID].v + 1] IN
       IF wallet[ADMIN_USER_ID].exists
         THEN /\ proc' = [proc EXCEPT ![p] = Fail(r, "duplicate")]
              /\ UNCHANGED wallet
         ELSE /\ wallet' = [wallet EXCEPT ![ADMIN_USER_ID] = w]
              /\ proc' = [proc EXCEPT ![p] =
                            [r EXCEPT !.pc = "twf_adminAdd", !.toBase = w,
                                      !.toWallet = addTokens(w, r.fee)]]
  /\ UNCHANGED <<txlog, token, activity, today, ncalls, milk>>

\* transferFeeToAdmin line 92: the save() of adminWallet.addTokens
TransferFeeToAdminAdd(p) ==
  /\ proc[p].pc = "twf_adminAdd"
  /\ canWrite(p, ADMIN_USER_ID)
  /\ LET r == proc[p]
         after == saved(ADMIN_USER_ID, r.toBase, r.toWallet) IN
       IF ~walletValid(r.toWallet)
         THEN /\ proc' = [proc EXCEPT ![p] = Fail(r, "validation")]
              /\ UNCHANGED wallet
         ELSE /\ wallet' = after
              /\ proc' = [proc EXCEPT ![p] =
                   [wrote(r, ADMIN_USER_ID, after) EXCEPT !.pc = "twf_count"]]
  /\ UNCHANGED <<txlog, token, activity, today, ncalls, milk>>

\* lines 123-133, createTokenTransfer line 630: validation, then the
\* countDocuments() of pre('save')
TransferWithFeesCount(p) ==
  /\ proc[p].pc = "twf_count"
  /\ LET r == proc[p] IN
       proc' = [proc EXCEPT ![p] =
         IF ~transactionValid(r.amount) THEN Fail(r, "validation")
         ELSE [r EXCEPT !.pc = "twf_insert", !.count = Len(txlog)]]
  /\ UNCHANGED <<wallet, txlog, token, activity, today, ncalls, milk>>

\* createTokenTransfer line 630: the insert; lines 135-140: the result
TransferWithFeesInsert(p) ==
  /\ proc[p].pc = "twf_insert"
  /\ LET r == proc[p] IN
       IF duplicateKey(reference(r.count))
         THEN /\ proc' = [proc EXCEPT ![p] = Fail(r, "duplicate")]
              /\ UNCHANGED txlog
         ELSE /\ txlog' = Append(txlog, tokenTransfer(r, r.amount, r.fee))
              /\ proc' = [proc EXCEPT ![p] =
                            ended([r EXCEPT !.nlog = @ + 1], "done")]
  /\ UNCHANGED <<wallet, token, activity, today, ncalls, milk>>

\* transfers with fees between users with and without a wallet, with the
\* date changing in between
NextFees ==
  \/ \E p \in Procs : TransferWithFeesFind(p)
  \/ \E p \in Procs : TransferWithFeesGetTo(p)
  \/ \E p \in Procs : TransferWithFeesCreateTo(p)
  \/ \E p \in Procs : TransferWithFeesDeduct(p)
  \/ \E p \in Procs : TransferWithFeesAdd(p)
  \/ \E p \in Procs : TransferFeeToAdminFind(p)
  \/ \E p \in Procs : TransferFeeToAdminCreate(p)
  \/ \E p \in Procs : TransferFeeToAdminAdd(p)
  \/ \E p \in Procs : TransferWithFeesCount(p)
  \/ \E p \in Procs : TransferWithFeesInsert(p)
  \/ NextDay

SpecFees == Init /\ [][NextFees]_vars

\* the redemption endpoint, called by users with and without a wallet, beside
\* the plain wallet transfers
NextRedeem ==
  \/ \E p \in Procs : SimpleTransferFind(p)
  \/ \E p \in Procs : SimpleTransferGetTo(p)
  \/ \E p \in Procs : SimpleTransferCreateTo(p)
  \/ \E p \in Procs : SimpleTransferDeduct(p)
  \/ \E p \in Procs : SimpleTransferAdd(p)
  \/ \E p \in Procs : CashRedemptionCall(p)
  \/ \E p \in Procs : GetOrCreateWalletFind(p)
  \/ \E p \in Procs : GetOrCreateWalletCreate(p)

SpecRedeem == Init /\ [][NextRedeem]_vars

\* a delivery request of one litre to branch X, as requestKccDelivery
\* creates it (kccController lines 584-592)
PendingDelivery ==
  [exists |-> TRUE, status |-> "pending", assignedKcc |-> "X",
   depotAttendant |-> "u1", litersRequested |-> 1, completedBy |-> "none",
   past |-> FALSE]

InitDelivery ==
  /\ wallet = SettleWallets
  /\ txlog = <<>>
  /\ token = InitToken
  /\ activity = <<>>
  /\ depot \in {[InitDepot EXCEPT !.pasteurizedMilk = n] : n \in {0, InitDepot.capacity}}
  /\ delivery = PendingDelivery
  /\ today = 0
  /\ proc = [p \in Procs |-> Idle]
  /\ ncalls = 0

\* confirmKccDelivery with its nested transferTokens, the expiry sweep and
\* the TTL index
NextDelivery ==
  \/ \E p \in Procs : ConfirmKccDeliveryCall(p)
  \/ \E p \in Procs : ConfirmKccDeliveryFind(p)
  \/ \E p \in Procs : GetOrCreateWalletFind(p)
  \/ \E p \in Procs : TransferTokensFind(p)
  \/ \E p \in Procs : TransferTokensGetTo(p)
  \/ \E p \in Procs : TransferTokensDeduct(p)
  \/ \E p \in Procs : TransferTokensAdd(p)
  \/ \E p \in Procs : TransferTokensCount(p)
  \/ \E p \in Procs : TransferTokensInsert(p)
  \/ \E p \in Procs : TransferTokensCommit(p)
  \/ \E p \in Procs : CommitFails(p)
  \/ \E p \in Procs : AbortTransaction(p)
  \/ \E p \in Procs : ConfirmKccDeliveryStock(p)
  \/ \E p \in Procs : ConfirmKccDeliveryCount(p)
  \/ \E p \in Procs : ConfirmKccDeliveryInsert(p)
  \/ \E p \in Procs : ConfirmKccDeliverySave(p)
  \/ DeliveryExpires
  \/ CleanupExpired
  \/ TtlDelete

SpecDelivery == InitDelivery /\ [][NextDelivery]_vars

\* the depot attendant and the KCC attendant of branch X hold tokens; the
\* KCC attendant of branch Y has no wallet yet
StockWallets ==
  [u \in Users |->
     IF u \in {"u1", "u2"}
       THEN [NewWallet(0) EXCEPT !.MTZ = 2, !.dailySendLimit = 2]
       ELSE NoWallet]

\* a depot with raw milk in stock, with or without a deposit and a pickup
\* that await payment
InitStock ==
  /\ wallet = StockWallets
  /\ txlog \in {<<>>, <<PendingDeposit, PendingPickup>>}
  /\ token = InitToken
  /\ activity = <<>>
  /\ depot \in {[InitDepot EXCEPT !.rawMilk = n] : n \in 1..2}
  /\ delivery = NoDelivery
  /\ today = 0
  /\ proc = [p \in Procs |-> Idle]
  /\ ncalls = 0

\* deposits and pickups at the depot, and the payment of a pickup
NextStock ==
  \/ \E p \in Procs : RecordMilkDepositCall(p)
  \/ \E p \in Procs : RecordMilkDepositFind(p)
  \/ \E p \in Procs : RecordMilkDepositCode(p)
  \/ \E p \in Procs : RecordMilkDepositCount(p)
  \/ \E p \in Procs : RecordMilkDepositInsert(p)
  \/ \E p \in Procs : RecordMilkDepositStock(p)
  \/ \E p \in Procs : RecordKccPickupCall(p)
  \/ \E p \in Procs : RecordKccPickupPending(p)
  \/ \E p \in Procs : RecordKccPickupFind(p)
  \/ \E p \in Procs : RecordKccPickupStock(p)
  \/ \E p \in Procs : RecordKccPickupCount(p)
  \/ \E p \in Procs : RecordKccPickupInsert(p)
  \/ \E p \in Procs : ProcessKccPaymentFind(p)
  \/ \E p \in Procs : GetOrCreateWalletFind(p)
  \/ \E p \in Procs : GetOrCreateWalletCreate(p)
  \/ \E p \in Procs : TransferTokensFind(p)
  \/ \E p \in Procs : TransferTokensGetTo(p)
  \/ \E p \in Procs : TransferTokensDeduct(p)
  \/ \E p \in Procs : TransferTokensAdd(p)
  \/ \E p \in Procs : TransferTokensCount(p)
  \/ \E p \in Procs : TransferTokensInsert(p)
  \/ \E p \in Procs : TransferTokensCommit(p)
  \/ \E p \in Procs : CommitFails(p)
  \/ \E p \in Procs : AbortTransaction(p)
  \/ \E p \in Procs : ProcessKccPaymentSave(p)
  \/ \E p \in Procs : SettleSaveFails(p)

SpecStock == InitStock /\ [][NextStock]_vars

\* the signal a depot may carry when the calls start: none, one that is
\* available, accepted or completed by the KCC attendant of branch X, or
\* cancelled (the clock and the sweep take an available one to expired)
signalled(status, acceptedBy, past) ==
  [InitDepot EXCEPT !.rawMilk = 1, !.sigStatus = status,
                    !.sigAcceptedBy = acceptedBy, !.sigLiters = 1,
                    !.sigExpiresAt = expiry(0), !.sigPast = past]

InitSignal ==
  /\ wallet = StockWallets
  /\ txlog \in {<<>>, <<PendingDeposit, PendingPickup>>}
  /\ token = InitToken
  /\ activity = <<>>
  /\ depot \in {[InitDepot EXCEPT !.rawMilk = 1],
                signalled("available", "none", FALSE),
                signalled("accepted", "u2", FALSE),
                signalled("completed", "u2", FALSE),
                signalled("cancelled", "none", FALSE)}
  /\ delivery = NoDelivery
  /\ today = 0
  /\ proc = [p \in Procs |-> Idle]
  /\ ncalls = 0

\* the pickup-signal handlers, the clock and the sweep
NextSignal ==
  \/ \E p \in Procs : SignalPickupAvailableLoad(p)
  \/ \E p \in Procs : SignalPickupAvailableSave(p)
  \/ \E p \in Procs : CancelPickupSignalLoad(p)
  \/ \E p \in Procs : CancelPickupSignalSave(p)
  \/ \E p \in Procs : GetPickupSignalStatusLoad(p)
  \/ \E p \in Procs : GetPickupSignalStatusExpire(p)
  \/ \E p \in Procs : ClearPickupSignalLoad(p)
  \/ \E p \in Procs : ClearPickupSignalSave(p)
  \/ \E p \in Procs : AcceptPickupSignalLoad(p)
  \/ \E p \in Procs : AcceptPickupSignalExpire(p)
  \/ \E p \in Procs : AcceptPickupSignalPending(p)
  \/ \E p \in Procs : AcceptPickupSignalSave(p)
  \/ \E p \in Procs : CompletePickupSignalLoad(p)
  \/ \E p \in Procs : CompletePickupSignalSave(p)
  \/ \E p \in Procs : ReleasePickupSignalLoad(p)
  \/ \E p \in Procs : ReleasePickupSignalSave(p)
  \/ SignalExpires
  \/ CleanupExpiredPickupSignals

SpecSignal == InitSignal /\ [][NextSignal]_vars

\* time passes, and the scheduler runs the sweep again and again
SpecSignalSwept ==
  /\ SpecSignal
  /\ WF_vars(SignalExpires)
  /\ WF_vars(CleanupExpiredPickupSignals)

\* the token supply ledger
NextToken ==
  \/ \E p \in Procs : MintTokensGet(p)
  \/ \E p \in Procs : MintTokensSave(p)
  \/ \E p \in Procs : MintTokensLog(p)
  \/ \E p \in Procs : BurnTokensGet(p)
  \/ \E p \in Procs : BurnTokensSave(p)
  \/ \E p \in Procs : BurnTokensLog(p)

SpecToken == Init /\ [][NextToken]_vars

\* ===================================================================
\* Properties
\* ===================================================================
TransferOps ==
  {"simpleTransfer", "transferTokens", "transferTokensWithFees", "bulkTransfer"}

\* the call of p has evaluated canSend on the sender document `seen`
Checked(p) == proc[p].seen.exists

\* the call of p is refused and has written no wallet
Refused(p) == proc[p].pc \in {"failed", "abort"} /\ proc[p].nw = 0

C2_Conservation ==
  \A p \in Procs :
    (proc[p].pc = "done"
       /\ proc[p].op \in {"transferTokens", "transferTokensWithFees"})
    => proc[p].delta = 0

\* C3: of two transfer attempts of B each from a wallet that holds B > 0, to
\* another user, exactly one succeeds and the sender ends with balance 0
\* (attempts that ended on a failed commit are left aside).
C3_NoDoubleSpend ==
  LET a == proc["p1"]
      b == proc["p2"] IN
  (/\ Ended("p1") /\ Ended("p2")
   /\ a.op \in TransferOps /\ b.op \in TransferOps
   /\ a.from = "u1" /\ b.from = "u1"
   /\ a.to # "u1" /\ b.to # "u1"
   /\ a.amount = InitWallets["u1"].MTZ /\ b.amount = InitWallets["u1"].MTZ
   /\ a.why # "commit" /\ b.why # "commit")
  => /\ (a.pc = "done") # (b.pc = "done")
     /\ wallet["u1"].MTZ = 0

\* C4: a Transfer Engine call with amount <= 0 fails and changes no wallet
\* balance, no wallet counter and appends nothing to the transaction log.
C4_RejectNonPositive ==
  \A p \in Procs :
    (Ended(p) /\ proc[p].op \in {"simpleTransfer", "transferTokens"}
              /\ proc[p].amount <= 0)
    => (proc[p].pc = "failed" /\ proc[p].nw = 0 /\ proc[p].nlog = 0)

\* C5: once a transferTokens call of a positive amount to another user has
\* ended, the sender debit, the recipient credit and the one token_transfer
\* entry are all there, or none of them is.
C5_TransferAtomic ==
  \A p \in Procs :
    (Ended(p) /\ proc[p].op = "transferTokens"
              /\ proc[p].amount > 0 /\ proc[p].from # proc[p].to)
    => \/ (proc[p].deb /\ proc[p].cred /\ proc[p].nlog = 1)
       \/ (~proc[p].deb /\ ~proc[p].cred /\ proc[p].nlog = 0)

\* C10: a debit of amount a applied to a wallet whose last reset is today
\* and whose dailySendUsed + a exceeds dailySendLimit is refused, balance
\* covering a or not, before the call has written any wallet.
C10_DailyLimit ==
  \A p \in Procs :
    (/\ Checked(p)
     /\ proc[p].seen.lastReset = proc[p].seenDay
     /\ proc[p].seen.dailySendUsed + proc[p].seenAmount
          > proc[p].seen.dailySendLimit)
    => Refused(p)

\* C10 witness: a transfer the balance covers has been refused for the limit
C10_Witness ==
  \E p \in Procs :
    /\ proc[p].pc = "failed" /\ proc[p].why = "limit"
    /\ proc[p].seenAmount > 0
    /\ proc[p].seen.MTZ >= proc[p].seenAmount
    /\ proc[p].seen.dailySendUsed > 0
    /\ wallet[proc[p].from].MTZ >= proc[p].seenAmount
    /\ proc[p].nw = 0

\* C6: after a bulkTransfer call of positive amounts that failed at the sum
\* check or at any iteration of the loop, the call has changed no wallet and
\* the log holds no token_transfer entry of the batch.
C6_BulkAllOrNothing ==
  \A p \in Procs :
    (/\ proc[p].pc = "failed" /\ proc[p].op = "bulkTransfer"
     /\ proc[p].why # "commit"
     /\ \A k \in 1..Len(proc[p].transfers) : proc[p].transfers[k].amount > 0)
    => /\ proc[p].nw = 0
       /\ ~\E k \in 1..Len(txlog) : txlog[k].cid = proc[p].cid

\* C7: once a mintTokens or burnTokens call has ended, successful or failed,
\* totalSupply = circulatingSupply + burnedSupply (all calls made so far
\* being mints and burns of positive amounts).
C7_SupplyIdentity ==
  ( /\ \E p \in Procs : Ended(p) /\ proc[p].op \in {"mintTokens", "burnTokens"}
    /\ \A p \in Procs : proc[p].pc # "idle" => proc[p].amount > 0 )
  => token.totalSupply = token.circulatingSupply + token.burnedSupply

SettleOps == {"processTokenPayment", "processKccPayment"}

\* C8: a settlement call whose two-phase transaction is already completed
\* when the handler looks it up is rejected, and writes no wallet and no
\* log entry.
C8_CompletedRejected ==
  \A p \in Procs :
    (proc[p].op \in SettleOps /\ proc[p].seenStatus = "completed")
    => /\ proc[p].pc = "failed" /\ proc[p].why = "notpending"
       /\ proc[p].nw = 0 /\ proc[p].nlog = 0 /\ ~proc[p].deb /\ ~proc[p].cred

\* C8 witness: the deposit has been paid and completed, and a second
\* settlement call on it has been rejected
C8_Witness ==
  \E p \in Procs :
    /\ proc[p].op = "processTokenPayment" /\ proc[p].txid = 1
    /\ proc[p].pc = "failed" /\ proc[p].why = "notpending"
    /\ proc[p].seenStatus = "completed"
    /\ txlog[1].status = "completed"
    /\ wallet["u1"].MTZ = SettleWallets["u1"].MTZ - txlog[1].tokensAmount

\* C9: for each two-phase transaction, at most one settlement call commits
\* a token transfer, whatever the interleaving of the settlement calls.
C9_SettleOnce ==
  \A p \in Procs, q \in Procs :
    (/\ p # q
     /\ proc[p].op \in SettleOps /\ proc[q].op \in SettleOps
     /\ proc[p].txid = proc[q].txid)
    => ~(proc[p].deb /\ proc[q].deb)

\* C11: right after a debit of amount a has been saved from a wallet document
\* whose last reset is before the day of the debit, the document has
\* dailySendUsed = a and lastReset = that day; inside a transaction the
\* same holds of the wallet as the transaction sees it.
C11_ResetOnNewDay ==
  \A p \in Procs :
    (/\ proc[p].pc \in {"st_add", "tt_add"}
     /\ proc[p].seen.lastReset < proc[p].seenDay)
    => /\ proc[p].fromWallet.dailySendUsed = proc[p].seenAmount
       /\ proc[p].fromWallet.lastReset = proc[p].seenDay
       /\ proc[p].pc = "tt_add" =>
            /\ proc[p].view[proc[p].from].dailySendUsed = proc[p].seenAmount
            /\ proc[p].view[proc[p].from].lastReset = proc[p].seenDay

\* C11 witness: a wallet that sent on the day before has been debited today
C11_Witness ==
  \E p \in Procs :
    /\ proc[p].pc \in {"st_add", "tt_add"}
    /\ proc[p].seen.lastReset < proc[p].seenDay
    /\ proc[p].seen.dailySendUsed > 0
    /\ proc[p].seenAmount > 0
    /\ proc[p].fromWallet.dailySendUsed = proc[p].seenAmount

\* C12: a confirmKccDelivery call by an attendant whose branch is not the
\* request's assignedKcc never gets past the lookup: it commits no transfer,
\* adds no stock, writes no log entry and never completes the request.
C12_BranchOnly ==
  \A p \in Procs :
    (/\ proc[p].op = "confirmKccDelivery"
     /\ assignedKcc(proc[p].to) # PendingDelivery.assignedKcc)
    => /\ proc[p].pc \in {"cd_find", "failed"}
       /\ proc[p].nw = 0 /\ ~proc[p].deb /\ ~proc[p].cred
       /\ ~proc[p].stocked /\ proc[p].nlog = 0
       /\ delivery.completedBy # proc[p].to

\* C12 witness: a KCC attendant of branch Y has presented the code of a
\* request that is pending and not expired, and has been rejected
C12_Witness ==
  \E p \in Procs :
    /\ proc[p].op = "confirmKccDelivery"
    /\ role(proc[p].to) = "kcc_attendant"
    /\ assignedKcc(proc[p].to) = "Y"
    /\ proc[p].pc = "failed" /\ proc[p].why = "invalid"
    /\ proc[p].seenStatus = "pending"
    /\ delivery.exists /\ delivery.status = "pending" /\ ~delivery.past

\* C13: for the delivery request, at most one confirmKccDelivery call
\* commits the token transfer and at most one adds the pasteurized stock.
C13_ConfirmOnce ==
  \A p \in Procs, q \in Procs :
    (/\ p # q
     /\ proc[p].op = "confirmKccDelivery"
     /\ proc[q].op = "confirmKccDelivery")
    => /\ ~(proc[p].deb /\ proc[q].deb)
       /\ ~(proc[p].stocked /\ proc[q].stocked)

\* C14: a request that is expired never becomes completed, and a request
\* that is completed never becomes expired.
C14_OneWayOut ==
  [][/\ delivery.status = "expired" => delivery'.status # "completed"
     /\ delivery.status = "completed" => delivery'.status # "expired"]_vars


\* C15: a recordMilkDeposit that finds rawMilk + liters > capacity is rejected
\* on the spot, the depot and the transactions left as they were; one that
\* finds room passes the check, and when its addMilkStock saves over the stock
\* it read, the raw-milk stock goes up by exactly liters.
C15_DepositCapacity ==
  [][\A p \in Procs :
       /\ (proc[p].pc = "rd_find" /\ proc'[p].pc # "rd_find") =>
            IF depot.rawMilk + proc[p].amount > depot.capacity
              THEN /\ proc'[p].pc = "failed"
                   /\ proc'[p].why = "capacity"
                   /\ depot' = depot
                   /\ txlog' = txlog
              ELSE proc'[p].pc = "rd_code"
       /\ (proc[p].pc = "rd_stock" /\ proc'[p].pc = "done"
             /\ depot.rawMilk = proc[p].seenStock) =>
            /\ depot'.rawMilk = depot.rawMilk + proc[p].amount
            /\ depot'.rawMilk <= depot.capacity
            /\ proc[p].nlog = 1]_vars

\* a depot with one litre of room: a deposit of one litre was accepted and
\* filled it, and the next deposit of one litre was rejected
C15_Witness ==
  \E p, q \in Procs :
    /\ proc[p].op = "recordMilkDeposit" /\ proc[p].pc = "done"
    /\ proc[p].seenStock = 1 /\ proc[p].amount = 1 /\ proc[p].stocked
    /\ proc[q].op = "recordMilkDeposit" /\ proc[q].pc = "failed"
    /\ proc[q].why = "capacity" /\ proc[q].seenStock = 2
    /\ proc[q].amount = 1 /\ ~proc[q].stocked /\ proc[q].nlog = 0
    /\ depot.rawMilk = depot.capacity

\* C16: no KCC attendant ever has two pending kcc_pickup transactions.
C16_OnePendingPickup ==
  \A j, k \in 1..Len(txlog) :
    (/\ j # k
     /\ txlog[j].type = "kcc_pickup" /\ txlog[j].status = "pending"
     /\ txlog[k].type = "kcc_pickup" /\ txlog[k].status = "pending")
    => txlog[j].kccAttendant # txlog[k].kccAttendant

\* C17: no depot attendant ever has two pending milk_deposit transactions: a
\* recordMilkDeposit by an attendant whose earlier deposit awaits payment is
\* rejected.
C17_PendingBlocksDeposit ==
  \A j, k \in 1..Len(txlog) :
    (/\ j # k
     /\ txlog[j].type = "milk_deposit" /\ txlog[j].status = "pending"
     /\ txlog[k].type = "milk_deposit" /\ txlog[k].status = "pending")
    => txlog[j].attendant # txlog[k].attendant


\* C18: every change of the pickup-signal status follows one of the edges
\* null -> available, available -> accepted, accepted -> completed,
\* available -> cancelled, available -> expired, accepted -> available.
C18_SignalEdges ==
  [][depot'.sigStatus # depot.sigStatus =>
       <<depot.sigStatus, depot'.sigStatus>> \in
         {<<"null", "available">>, <<"available", "accepted">>,
          <<"accepted", "completed">>, <<"available", "cancelled">>,
          <<"available", "expired">>, <<"accepted", "available">>}]_vars

\* C19: while the signal of the depot is available or accepted, a step of
\* signalPickupAvailable rejects the request and leaves the signal as it is.
C19_OneActiveSignal ==
  [][\A p \in Procs :
       (/\ proc'[p] # proc[p]
        /\ proc'[p].op = "signalPickupAvailable"
        /\ depot.sigStatus \in {"available", "accepted"})
       => /\ proc'[p].pc = "failed"
          /\ signalOf(depot') = signalOf(depot)]_vars

\* C20: a completePickupSignal or releasePickupSignal request goes on to its
\* save only when it finds the signal accepted, and accepted by the caller;
\* any other request is rejected on the spot, the depot left as it is.
C20_OwnerOnly ==
  [][\A p \in Procs :
       (/\ proc'[p] # proc[p]
        /\ proc[p].pc \in {"idle", "done", "failed"}
        /\ proc'[p].op \in {"completePickupSignal", "releasePickupSignal"})
       => IF /\ depot.sigStatus = "accepted"
             /\ depot.sigAcceptedBy = proc'[p].from
            THEN proc'[p].pc \in {"cp_save", "rl_save"}
            ELSE /\ proc'[p].pc = "failed"
                 /\ ~proc'[p].stocked
                 /\ depot' = depot]_vars

\* the attendant of branch Y was refused the signal that the attendant of
\* branch X had accepted, who then completed it
C20_Witness ==
  \E p, q \in Procs :
    /\ proc[p].op \in {"completePickupSignal", "releasePickupSignal"}
    /\ proc[p].from = ADMIN_USER_ID /\ proc[p].pc = "failed"
    /\ proc[p].why = "notaccepted" /\ ~proc[p].stocked
    /\ proc[q].op = "completePickupSignal" /\ proc[q].from = "u2"
    /\ proc[q].pc = "done" /\ proc[q].cid > proc[p].cid
    /\ depot.sigStatus = "completed" /\ depot.sigAcceptedBy = "u2"


\* C21: of two acceptPickupSignal requests by different KCC attendants for the
\* same available signal, never both succeed.
C21_OneAcceptWins ==
  \A p, q \in Procs :
    (/\ p # q
     /\ proc[p].op = "acceptPickupSignal" /\ proc[q].op = "acceptPickupSignal"
     /\ proc[p].from # proc[q].from)
    => ~(proc[p].pc = "done" /\ proc[q].pc = "done")


\* C22: an acceptPickupSignal request by a KCC attendant that finds the signal
\* available with expiresAt in the past goes to the lazy expiry, which stores
\* status expired and rejects the request: the request never stores accepted.
C22_NoAcceptAfterExpiry ==
  [][\A p \in Procs :
       /\ (/\ proc'[p] # proc[p]
           /\ proc[p].pc \in {"idle", "done", "failed"}
           /\ proc'[p].op = "acceptPickupSignal"
           /\ role(proc'[p].from) = "kcc_attendant"
           /\ depot.sigStatus = "available" /\ depot.sigPast)
          => proc'[p].pc = "ac_expire" /\ depot' = depot
       /\ (proc[p].pc = "ac_expire" /\ proc'[p] # proc[p])
          => /\ proc'[p].pc = "failed"
             /\ proc'[p].why = "unavailable"
             /\ depot'.sigStatus = "expired"]_vars

\* an attendant asked for a signal that was available and past its expiry:
\* the signal is now expired and the request was rejected
C22_Witness ==
  \E p \in Procs :
    /\ proc[p].op = "acceptPickupSignal" /\ proc[p].pc = "failed"
    /\ proc[p].why = "unavailable" /\ proc[p].stocked
    /\ depot.sigStatus = "expired" /\ depot.sigPast
    /\ depot.sigAcceptedBy = "none"


\* C23: with the sweep running again and again, a signal that is available
\* with expiresAt in the past does not stay available; and when no handler
\* is running and no further request arrives, it becomes expired.
C23_SweepConverges ==
  /\ (depot.sigStatus = "available" /\ depot.sigExpiresAt # 0
        /\ depot.sigPast)
       ~> (depot.sigStatus # "available")
  /\ \A n \in 0..MaxCalls :
       (/\ depot.sigStatus = "available" /\ depot.sigExpiresAt # 0
        /\ depot.sigPast
        /\ ncalls = n
        /\ \A p \in Procs : proc[p].pc \in {"idle", "done", "failed"})
       ~> (depot.sigStatus = "expired" \/ ncalls # n)

\* no request was ever made, and the signal is expired
C23_Witness ==
  /\ ncalls = 0
  /\ depot.sigStatus = "expired" /\ depot.sigPast

\* -------------------------------------------------------- cash redemption
\* C24: a cash redemption of an amount that is at least minRedemption and at
\* most the wallet balance succeeds (and debits the wallet, lowers the
\* circulating supply and raises the burned supply by that amount): a
\* redemption that has passed both checks does not end in an error
C24_RedemptionSucceeds ==
  \A p \in Procs :
    (/\ proc[p].op = "cashRedemption"
     /\ proc[p].pc = "failed"
     /\ proc[p].seen.exists
     /\ proc[p].amount >= token.minRedemption
     /\ proc[p].amount <= proc[p].seen.MTZ)
    => FALSE

C26_ReferencesDiffer ==
  \A j, k \in 1..Len(txlog) :
    j # k => txlog[j].reference # txlog[k].reference

\* two overlapping creations were given the same reference by pre('save'):
\* one is in the log, the insert of the other has been refused
C26_Witness ==
  \E p \in Procs :
    /\ proc[p].why = "duplicate"
    /\ proc[p].pc = "failed"
    /\ proc[p].op = "recordKccPickup"
    /\ \E k \in 1..Len(txlog) :
         /\ txlog[k].cid # 0 /\ txlog[k].cid # proc[p].cid
         /\ txlog[k].reference = Len(txlog)

\* ------------------------------------------------------- getOrCreateWallet
\* C27: under every interleaving of getOrCreateWallet calls for one user,
\* each call returns a wallet of that user: no call ends in the duplicate-key
\* error of Wallet.create
C27_EveryCallReturnsWallet ==
  \A p \in Procs :
    (proc[p].op \in {"cashRedemption", "simpleTransfer"} /\ proc[p].pc = "failed")
    => proc[p].why # "duplicate"

\* -------------------------------------------------- single unit of work
\* C28: a transferTokensWithFees call that fails has changed no wallet
\* balance and has left no log entry
C28_FeesTransferAtomic ==
  \A p \in Procs :
    (proc[p].op = "transferTokensWithFees" /\ proc[p].pc = "failed")
    => /\ proc[p].nw = 0 /\ ~proc[p].deb /\ ~proc[p].cred
       /\ proc[p].nlog = 0

\* ------------------------------------------------------ paid, then completed
\* C29: a two-phase transaction is pending only while no settlement transfer
\* has been committed for it: once a settlement call whose transfer has
\* committed has ended, by its answer or by a failure after the transfer,
\* the transaction it settles is completed
C29_PendingWhileUnpaid ==
  \A p \in Procs :
    (/\ proc[p].op \in SettleOps
     /\ proc[p].txid # 0
     /\ proc[p].deb /\ proc[p].cred
     /\ Ended(p))
    => txlog[proc[p].txid].status = "completed"

\* ---------------------------------------------------------- daily usage
\* C31: in every reachable state the same-day usage recorded in a wallet
\* does not exceed the wallet's daily send limit
C31_UsedWithinLimit ==
  \A u \in Users :
    wallet[u].exists => wallet[u].dailySendUsed <= wallet[u].dailySendLimit

\* ---------------------------------------------------------- the log entry
\* C32: every successful transferTokens call has persisted exactly one
\* token_transfer entry, whose fromUser is the sender, whose toUser is the
\* recipient and whose tokensAmount is the amount transferred
C32_TransferLogged ==
  \A p \in Procs :
    (proc[p].op = "transferTokens" /\ proc[p].pc = "done")
    => /\ Cardinality({k \in 1..Len(txlog) : txlog[k].cid = proc[p].cid}) = 1
       /\ \A k \in 1..Len(txlog) :
            txlog[k].cid = proc[p].cid
            => /\ txlog[k].type = "token_transfer"
               /\ txlog[k].fromUser = proc[p].from
               /\ txlog[k].toUser = proc[p].to
               /\ txlog[k].tokensAmount = proc[p].amount

\* ------------------------------------------------------- no lost stock
\* C33: under every interleaving of recordMilkDeposit and recordKccPickup
\* calls on the depot no stock update is lost: the step that stores the stock
\* of a deposit of L > 0 litres raises the stored raw-milk stock by L, and the
\* step that stores the stock of a pickup of L > 0 litres lowers it by L
C33_NoLostStock ==
  [][\A p \in Procs :
       /\ (proc[p].pc = "rd_stock" /\ proc'[p].stocked /\ proc[p].amount > 0)
          => depot'.rawMilk = depot.rawMilk + proc[p].amount
       /\ (proc[p].pc = "rp_stock" /\ proc'[p].stocked /\ proc[p].amount > 0)
          => depot'.rawMilk = depot.rawMilk - proc[p].amount]_vars

\* ---------------------------------------------------------- supply sums
RECURSIVE activitySum(_, _)
\* the amounts of the activity records of one type
activitySum(as, type) ==
  IF as = <<>> THEN 0
  ELSE (IF as[1].type = type THEN as[1].amount ELSE 0)
         + activitySum(Tail(as), type)

\* C34: once the mintTokens and burnTokens calls made so far, all of positive
\* amounts, have returned, circulatingSupply is the initial circulatingSupply plus the amounts minted
\* minus the amounts burned, totalSupply is the initial totalSupply plus the
\* amounts minted, and totalSupply does not exceed maxSupply
C34_SupplySums ==
  (/\ \A p \in Procs : proc[p].pc \in {"idle", "done", "failed"}
   /\ \A k \in 1..Len(activity) : activity[k].amount > 0)
  => /\ token.circulatingSupply
          = InitToken.circulatingSupply
              + activitySum(activity, "mint") - activitySum(activity, "burn")
     /\ token.totalSupply
          = InitToken.totalSupply + activitySum(activity, "mint")
     /\ token.totalSupply <= token.maxSupply

\* ------------------------------------------------- pasteurized capacity
\* C35: a delivery for which the depot lacks capacity for the incoming
\* pasteurized milk is rejected, so the pasteurized-milk stock of the depot
\* never exceeds its capacity
C35_PasteurizedWithinCapacity ==
  depot.pasteurizedMilk <= depot.capacity

\* ------------------------------------------------- transfer with fees
\* C36: a successful transferTokensWithFees(from, to, amount, fee), run on
\* its own, lowers the sender's balance by amount + fee, raises the
\* recipient's by amount and the admin wallet's by fee, whoever the sender
\* and the recipient are; and a call whose canSend(amount + fee) is false is
\* refused
C36_FeesTransferMoves ==
  \A p \in Procs :
    /\ (/\ ncalls = 1
        /\ proc[p].op = "transferTokensWithFees" /\ proc[p].pc = "done"
        /\ proc[p].amount > 0)
       => \A u \in Users :
            wallet[u].MTZ
              = InitWallets[u].MTZ
                  - (IF u = proc[p].from THEN proc[p].amount + proc[p].fee ELSE 0)
                  + (IF u = proc[p].to THEN proc[p].amount ELSE 0)
                  + (IF u = ADMIN_USER_ID THEN proc[p].fee ELSE 0)
    /\ (/\ proc[p].op = "transferTokensWithFees"
        /\ Checked(p)
        /\ ~canSend(proc[p].seen, proc[p].seenAmount, proc[p].seenDay))
       => Refused(p)

\* ------------------------------------------------------ what a settlement moves
\* C37: a successful settlement of a pending milk_deposit of L litres moves
\* exactly L tokens from the depot attendant's wallet to the farmer's, and
\* one of a pending kcc_pickup of L litres moves exactly L tokens from the
\* KCC attendant's wallet to the depot attendant's; the transaction gets
\* tokensAmount = L and status completed, and no step of the settlement
\* changes the depot
C37_SettlementMoves ==
  [][\A p \in Procs :
       LET t == txlog[proc[p].txid]
           payer == IF t.type = "milk_deposit" THEN t.attendant
                    ELSE t.kccAttendant
           payee == t.fromUser IN
       /\ (/\ proc[p].caller \in SettleOps
           /\ proc[p].pc = "tt_commit" /\ proc'[p].pc = "settle_save")
          => /\ wallet'[payer].MTZ = wallet[payer].MTZ - t.litersRaw
             /\ wallet'[payee].MTZ = wallet[payee].MTZ + t.litersRaw
             /\ \A u \in Users \ {payer, payee} : wallet'[u] = wallet[u]
       /\ (/\ proc[p].caller \in SettleOps
           /\ proc[p].pc = "settle_save" /\ proc'[p].pc = "done")
          => /\ txlog'[proc[p].txid].tokensAmount = t.litersRaw
             /\ txlog'[proc[p].txid].status = "completed"
             /\ wallet' = wallet
       /\ (proc[p].caller \in SettleOps /\ proc'[p] # proc[p])
          => depot' = depot]_vars

\* a deposit and a pickup of one litre have both been settled: the attendant
\* paid the farmer, and the farmer, who is the KCC attendant of the pickup,
\* paid the attendant
C37_Witness ==
  /\ \A k \in 1..2 : txlog[k].status = "completed" /\ txlog[k].tokensAmount = 1
  /\ \E p, q \in Procs :
       /\ proc[p].op = "processTokenPayment" /\ proc[p].pc = "done"
       /\ proc[q].op = "processKccPayment" /\ proc[q].pc = "done"
  /\ wallet["u1"].MTZ = 2 /\ wallet["u2"].MTZ = 0
  /\ depot = InitDepot

\* ------------------------------------------------------------ locked wallets
\* the wallets of the depot attendant and of the KCC attendant, the second
\* of which may have been locked (no handler of the program writes isLocked)
InitLocked ==
  /\ wallet \in {[StockWallets EXCEPT !["u2"].isLocked = b] : b \in BOOLEAN}
  /\ txlog = <<PendingDeposit, PendingPickup>>
  /\ token = InitToken
  /\ activity = <<>>
  /\ depot = InitDepot
  /\ delivery = NoDelivery
  /\ today = 0
  /\ proc = [p \in Procs |-> Idle]
  /\ ncalls = 0

\* transfers, settlements and redemptions on wallets one of which is locked
SpecLocked == InitLocked /\ [][NextLedger]_vars

\* C38: the balance of a locked wallet never decreases in any step, and a
\* transfer, settlement or redemption whose canSend check ran on a locked
\* sender wallet is rejected without having written any wallet
C38_LockedNeverDebited ==
  [][/\ \A u \in Users :
          (wallet[u].exists /\ wallet[u].isLocked)
          => wallet'[u].MTZ >= wallet[u].MTZ
     /\ \A p \in Procs :
          (Checked(p) /\ proc[p].seen.isLocked) => Refused(p)]_vars


\* ------------------------------------------- a settlement the payer cannot cover
\* the depot attendant's float covers both payments, one of them, or none
InitShort ==
  /\ wallet \in {[SettleWallets EXCEPT !["u1"].MTZ = n] : n \in 0..2}
  /\ txlog = <<PendingDeposit, PendingPickup>>
  /\ token = InitToken
  /\ activity = <<>>
  /\ depot = InitDepot
  /\ delivery = NoDelivery
  /\ today = 0
  /\ proc = [p \in Procs |-> Idle]
  /\ ncalls = 0

SpecShort == InitShort /\ [][NextSettle]_vars

\* C39: a processTokenPayment call that finds the attendant's wallet short of
\* the litres of the deposit (at the balance pre-check, or at canSend inside
\* transferTokens) fails, having written no wallet and no log entry; the
\* step in which it fails leaves every balance, the transaction log and the
\* depot as they are, and a deposit no other call has completed meanwhile is
\* still pending with tokensAmount = 0
C39_UncoveredSettlementChangesNothing ==
  [][\A p \in Procs :
       (/\ proc'[p].caller = "processTokenPayment"
        /\ proc'[p].why \in {"insufficient", "balance"}
        /\ proc[p].why = "")
       => /\ \A u \in Users : wallet'[u].MTZ = wallet[u].MTZ
          /\ txlog' = txlog
          /\ depot' = depot
          /\ proc'[p].pc \in {"failed", "abort"}
          /\ proc'[p].nw = 0 /\ proc'[p].nlog = 0
          /\ txlog[proc[p].txid].status = "pending"
             => /\ txlog'[proc[p].txid].status = "pending"
                /\ txlog'[proc[p].txid].tokensAmount = 0]_vars

\* the attendant's wallet is empty and the payment of the deposit of one
\* litre has been refused: the deposit is pending with tokensAmount 0, and
\* wallets and depot are as they started
C39_Witness ==
  \E p \in Procs :
    /\ proc[p].caller = "processTokenPayment" /\ proc[p].pc = "failed"
    /\ proc[p].why = "insufficient" /\ proc[p].amount = 1
    /\ wallet["u1"].MTZ = 0 /\ ncalls = 1
    /\ txlog[proc[p].txid].status = "pending"
    /\ txlog[proc[p].txid].tokensAmount = 0
    /\ depot = InitDepot


\* -------------------------------------------------- two-phase transactions
TwoPhase == {"milk_deposit", "kcc_pickup"}

\* C40: a milk_deposit or kcc_pickup transaction has tokensAmount = 0 in
\* every state in which its status is pending, and no step changes the
\* status or the tokensAmount of one that is completed
C40_PendingZeroCompletedFinal ==
  [][/\ \A k \in 1..Len(txlog') :
          (txlog'[k].type \in TwoPhase /\ txlog'[k].status = "pending")
          => txlog'[k].tokensAmount = 0
     /\ \A k \in 1..Len(txlog) :
          (txlog[k].type \in TwoPhase /\ txlog[k].status = "pending")
          => txlog[k].tokensAmount = 0
     /\ \A k \in 1..Len(txlog) :
          (txlog[k].type \in TwoPhase /\ txlog[k].status = "completed")
          => /\ k <= Len(txlog')
             /\ txlog'[k].status = "completed"
             /\ txlog'[k].tokensAmount = txlog[k].tokensAmount]_vars

\* two overlapping payments of the same deposit have both saved it: the
\* second save found the entry completed and left its status and its
\* tokensAmount of 1 as they were, while the pickup is pending with 0
C40_Witness ==
  /\ \A p \in Procs :
       /\ proc[p].caller = "processTokenPayment" /\ proc[p].pc = "done"
       /\ proc[p].txid = 1
  /\ txlog[1].status = "completed" /\ txlog[1].tokensAmount = 1
  /\ txlog[2].status = "pending" /\ txlog[2].tokensAmount = 0

====
